---- MODULE Spec2Model ----
(***************************************************************************)
(* A model of xvalid: the field resolver (getFieldName, findStructField),  *)
(* the record decomposition (structToMap), the rule chain (New, Field,     *)
(* Struct, Validate) and the leaf validators.                              *)
(*                                                                         *)
(* Go strings are sequences of one-character strings, so that              *)
(* strings.Split and strings.Join are computed and not assumed.  A record  *)
(* type is a sequence of field descriptors; the memory layout of a record  *)
(* is computed from the descriptors in machine words, so that two fields   *)
(* have the same address exactly when Go gives them the same address.      *)
(***************************************************************************)
EXTENDS Integers, Sequences, FiniteSets, TLC

VARIABLES
  recType,   \* the record type the rule chain is declared for (field descriptors)
  query,     \* the arguments of the call studied (getFieldName, or a length rule)
  answer,    \* resolver call: what getFieldName returned (or its panic)
  vobjs,     \* the validator objects of the program (the Validator pointers point here)
  arrays,    \* the backing arrays of the []Validator slices
  rs,        \* the Rules values the caller holds, by the name of its variable
  bound,     \* for every Rules value: the call that bound each of its entries
  call,      \* the last call of the program and its outcome
  inflight   \* the Validate calls that run concurrently, by goroutine

vars == <<recType, query, answer, vobjs, arrays, rs, bound, call, inflight>>

-----------------------------------------------------------------------------
(* Bounds of the model *)

\* largest number of fields (at every depth together) of a record type
MaxNodes == 4

\* largest number of fields of a record type that is validated
MaxValNodes == 2

\* largest number of validators of a rule chain
MaxChain == 2

\* largest number of validators the program makes for forked chains
MaxObjs == 5

\* largest number of code points of a text whose length is validated
MaxRunes == 3

\* largest number a numeric field holds and a Min or Max rule is made with
MaxNum == 3

\* largest number of violations of a violation sequence
MaxErrs == 3

-----------------------------------------------------------------------------
(* strings *)

RECURSIVE SplitAcc(_, _, _, _)
SplitAcc(s, sep, cur, acc) ==
  IF s = <<>> THEN Append(acc, cur)
  ELSE IF Head(s) = sep THEN SplitAcc(Tail(s), sep, <<>>, Append(acc, cur))
  ELSE SplitAcc(Tail(s), sep, Append(cur, Head(s)), acc)

\* strings.Split(s, sep) for a one-character separator
Split(s, sep) == SplitAcc(s, sep, <<>>, <<>>)

RECURSIVE Join(_, _)
\* strings.Join(parts, sep)
Join(parts, sep) ==
  IF parts = <<>> THEN <<>>
  ELSE IF Len(parts) = 1 THEN parts[1]
  ELSE parts[1] \o <<sep>> \o Join(Tail(parts), sep)

\* the export name of a field: the first comma-delimited token of its json
\* tag, or the declared name when that token is empty
ExportName(sf) ==
  LET tag == Split(sf.tag, ",")[1]
  IN IF tag = <<>> THEN sf.name ELSE tag

\* jsonFieldName: the last dot-delimited segment of a field name
jsonFieldName(field) ==
  LET parts == Split(field, ".")
  IN parts[Len(parts)]

-----------------------------------------------------------------------------
(* record types *)

\* the declared name of the field at position i of a struct
PosName(i) == << <<"A">>, <<"B">>, <<"C">>, <<"D">>, <<"E">>, <<"F">> >>[i]

\* an exported, untagged field of one machine word (int, string, pointer ...)
Leaf == [name |-> <<>>, tag |-> <<>>, anon |-> FALSE, exported |-> TRUE,
         kind |-> "word", fields |-> <<>>]

\* an embedded (anonymous) struct with the given fields
Embedded(fs) == [name |-> <<>>, tag |-> <<>>, anon |-> TRUE, exported |-> TRUE,
                 kind |-> "struct", fields |-> fs]

RECURSIVE Forests(_)
RECURSIVE Trees(_)
\* the field lists of exactly n fields in all, embedded structs counted with
\* their own fields
Forests(n) ==
  IF n = 0 THEN { <<>> }
  ELSE UNION { { <<t>> \o f : t \in Trees(k), f \in Forests(n - k) } : k \in 1..n }
\* one field that takes n fields in all: a leaf, or an embedded struct
Trees(n) ==
  IF n = 1 THEN { Leaf, Embedded(<<>>) }
  ELSE { Embedded(f) : f \in Forests(n - 1) }

RECURSIVE Named(_)
\* every field named after its position in its struct
Named(fs) ==
  [i \in 1..Len(fs) |->
     [fs[i] EXCEPT !.name = PosName(i), !.fields = Named(fs[i].fields)]]

\* the paths (sequences of field positions) of all fields of a field list
RECURSIVE Paths(_)
Paths(fs) ==
  UNION { { <<i>> } \cup { <<i>> \o p : p \in Paths(fs[i].fields) } : i \in 1..Len(fs) }

RECURSIVE FieldAt(_, _)
FieldAt(fs, p) ==
  IF Len(p) = 1 THEN fs[p[1]] ELSE FieldAt(fs[p[1]].fields, Tail(p))

\* the ways in which one field departs from the plain exported untagged word
LeafDecorations ==
  { [tag |-> <<"n">>, exported |-> TRUE, kind |-> "word", anon |-> FALSE],
    [tag |-> <<"n", ",", "o">>, exported |-> TRUE, kind |-> "word", anon |-> FALSE],
    [tag |-> <<",", "o">>, exported |-> TRUE, kind |-> "word", anon |-> FALSE],
    [tag |-> <<"X", ".", "B">>, exported |-> TRUE, kind |-> "word", anon |-> FALSE],
    [tag |-> <<"A">>, exported |-> TRUE, kind |-> "word", anon |-> FALSE],
    [tag |-> <<>>, exported |-> FALSE, kind |-> "word", anon |-> FALSE],
    [tag |-> <<>>, exported |-> TRUE, kind |-> "zero", anon |-> FALSE],
    [tag |-> <<>>, exported |-> TRUE, kind |-> "ptr", anon |-> TRUE] }

StructDecorations ==
  { [tag |-> <<"n">>, exported |-> TRUE, kind |-> "struct", anon |-> TRUE],
    [tag |-> <<>>, exported |-> FALSE, kind |-> "struct", anon |-> TRUE],
    [tag |-> <<>>, exported |-> TRUE, kind |-> "struct", anon |-> FALSE] }

RECURSIVE Decorate(_, _, _)
Decorate(fs, p, d) ==
  IF Len(p) = 1
  THEN [fs EXCEPT ![p[1]] = [@ EXCEPT !.tag = d.tag, !.exported = d.exported,
                                      !.kind = d.kind, !.anon = d.anon]]
  ELSE [fs EXCEPT ![p[1]] = [@ EXCEPT !.fields = Decorate(@, Tail(p), d)]]

Decorations(sf) ==
  IF sf.kind = "struct" THEN StructDecorations ELSE LeafDecorations

Shapes(max) == { Named(f) : f \in UNION { Forests(n) : n \in 1..max } }

\* the record types of at most max fields: every shape, plain or with one field
\* decorated
TypesUpTo(max) ==
  Shapes(max) \cup
  UNION { UNION { { Decorate(fs, p, d) : d \in Decorations(FieldAt(fs, p)) } :
                  p \in Paths(fs) } : fs \in Shapes(max) }

RecordTypes == TypesUpTo(MaxNodes)

-----------------------------------------------------------------------------
(* memory layout, in machine words *)

RECURSIVE SizeOf(_)
RECURSIVE StructSize(_)
RECURSIVE SumSizes(_, _)

\* the size of a field: a zero-size field (struct{}, [0]T) takes no room
SizeOf(sf) ==
  IF sf.kind = "struct" THEN StructSize(sf.fields)
  ELSE IF sf.kind = "zero" THEN 0
  ELSE 1

SumSizes(fs, n) == IF n = 0 THEN 0 ELSE SumSizes(fs, n - 1) + SizeOf(fs[n])

\* a struct that is not empty and ends in a zero-size field is padded, so that
\* the address of that field stays inside the struct
StructSize(fs) ==
  LET raw == SumSizes(fs, Len(fs))
  IN IF fs # <<>> /\ raw > 0 /\ SizeOf(fs[Len(fs)]) = 0 THEN raw + 1 ELSE raw

\* structValue.Field(i).UnsafeAddr() for a struct at address base
FieldAddr(fs, base, i) == base + SumSizes(fs, i - 1)

RECURSIVE AddrOfPath(_, _, _)
\* the address of the field the caller names by &r.p1.p2...
AddrOfPath(fs, base, p) ==
  IF Len(p) = 1 THEN FieldAddr(fs, base, p[1])
  ELSE AddrOfPath(fs[p[1]].fields, FieldAddr(fs, base, p[1]), Tail(p))

\* the address of the i-th record instance of the program
InstanceAddr(i) == 16 * i

-----------------------------------------------------------------------------
(* the field resolver *)

Found(results) == [panic |-> "", fields |-> results]
Panicked(msg) == [panic |-> msg, fields |-> <<>>]

RECURSIVE findStructField(_, _, _, _)
RECURSIVE findLoop(_, _, _, _, _)

\* the loop of findStructField, at index i (counting down to 1)
findLoop(fs, base, ptr, results, i) ==
  IF i = 0 THEN Found(results)
  ELSE
    LET sf == fs[i]
        addr == FieldAddr(fs, base, i)
        depth == Len(results)
    IN IF ptr = addr
       THEN IF sf.anon
            THEN findStructField(sf, addr, ptr, Append(results, sf))
            ELSE Found(Append(results, sf))
       ELSE IF sf.anon
            THEN LET tmp == findStructField(sf, addr, ptr, Append(results, sf))
                 IN IF tmp.panic # "" THEN tmp
                    ELSE IF Len(tmp.fields) > depth + 1 THEN tmp
                    ELSE findLoop(fs, base, ptr, results, i - 1)
            ELSE findLoop(fs, base, ptr, results, i - 1)

\* findStructField(structValue, fieldValue, results): structValue is the value
\* of the field descriptor sv at address base; NumField panics on a value that
\* is not a struct
findStructField(sv, base, ptr, results) ==
  IF sv.kind # "struct" THEN Panicked("reflect: call of NumField on non-struct")
  ELSE findLoop(sv.fields, base, ptr, results, Len(sv.fields))

RECURSIVE ExportNames(_)
\* the parts of getFieldName: the export name of every field found
ExportNames(fields) ==
  IF fields = <<>> THEN <<>>
  ELSE <<ExportName(Head(fields))>> \o ExportNames(Tail(fields))

\* getFieldName(structPtr, fieldPtr) for the record type fs
\*   structPtr: [kind, isnil, elem, addr]; fieldPtr: [kind, addr]
getFieldName(fs, structPtr, fieldPtr) ==
  IF structPtr.kind # "ptr" \/ (~structPtr.isnil /\ structPtr.elem # "struct")
  THEN [panic |-> "struct is not pointer", name |-> <<>>]
  ELSE IF structPtr.isnil
  THEN [panic |-> "struct is nil", name |-> <<>>]
  ELSE IF fieldPtr.kind # "ptr"
  THEN [panic |-> "field is not pointer", name |-> <<>>]
  ELSE
    LET value == [Embedded(fs) EXCEPT !.anon = FALSE]
        found == findStructField(value, structPtr.addr, fieldPtr.addr, <<>>)
    IN IF found.panic # "" THEN [panic |-> found.panic, name |-> <<>>]
       ELSE IF Len(found.fields) = 0
       THEN [panic |-> "can't find field", name |-> <<>>]
       ELSE [panic |-> "", name |-> Join(ExportNames(found.fields), ".")]

-----------------------------------------------------------------------------
(* Go values, as reflect sees them *)

\* kind: the reflect.Kind; n: the number held (int, float, bool) or the length
\* (array, slice, map); s: the bytes of a string; isnil: a nil pointer, slice
\* or map; nz: some element or field of an array or struct is not zero;
\* elem: the value a pointer points to
GoValue(kind, n, s, isnil, nz, elem) ==
  [kind |-> kind, n |-> n, s |-> s, isnil |-> isnil, nz |-> nz, elem |-> elem]

\* the nil interface: reflect.ValueOf(nil) is the invalid Value
Invalid == GoValue("invalid", 0, <<>>, TRUE, FALSE, <<>>)
IntV(n) == GoValue("int", n, <<>>, FALSE, FALSE, <<>>)
\* an unsigned integer (uint, uint8 ... uintptr)
UintV(n) == GoValue("uint", n, <<>>, FALSE, FALSE, <<>>)
\* a floating point number, held in halves: FloatV(3) is 1.5
FloatV(halves) == GoValue("float", halves, <<>>, FALSE, FALSE, <<>>)
StrV(bytes) == GoValue("string", 0, bytes, FALSE, FALSE, <<>>)
NilPtrV == GoValue("ptr", 0, <<>>, TRUE, FALSE, <<>>)
PtrV(v) == GoValue("ptr", 0, <<>>, FALSE, FALSE, <<v>>)
SliceV(isnil, n) == GoValue("slice", n, <<>>, isnil, FALSE, <<>>)
MapV(isnil, n) == GoValue("map", n, <<>>, isnil, FALSE, <<>>)
\* a map of the type map[string]any itself
MapStrAnyV(isnil, n) == GoValue("mapStrAny", n, <<>>, isnil, FALSE, <<>>)
ArrayV(n, nz) == GoValue("array", n, <<>>, FALSE, nz, <<>>)
StructV(nz) == GoValue("struct", 0, <<>>, FALSE, nz, <<>>)

\* reflect.Value.Kind
KindOf(v) == IF v.kind = "mapStrAny" THEN "map" ELSE v.kind

\* reflect.Value.IsValid
IsValid(v) == v.kind # "invalid"

\* reflect.Value.IsZero
IsZero(v) ==
  CASE v.kind \in {"int", "uint", "float", "bool"} -> v.n = 0
    [] v.kind = "string" -> Len(v.s) = 0
    [] v.kind \in {"array", "struct"} -> ~v.nz
    [] OTHER -> v.isnil

\* the text of a Go string constant made of ASCII letters
Ascii(chars) == [i \in 1..Len(chars) |->
  CASE chars[i] = "a" -> 97 [] chars[i] = "b" -> 98 [] chars[i] = "d" -> 100
    [] OTHER -> 63]

-----------------------------------------------------------------------------
(* the order of strings *)

\* the byte of a character of a name
CharCode(ch) ==
  CASE ch = "," -> 44
    [] ch = "1" -> 49
    [] ch = "@" -> 64
    [] ch = "." -> 46
    [] ch = "A" -> 65
    [] ch = "B" -> 66
    [] ch = "C" -> 67
    [] ch = "D" -> 68
    [] ch = "E" -> 69
    [] ch = "F" -> 70
    [] ch = "G" -> 71
    [] ch = "H" -> 72
    [] ch = "I" -> 73
    [] ch = "J" -> 74
    [] ch = "K" -> 75
    [] ch = "L" -> 76
    [] ch = "M" -> 77
    [] ch = "N" -> 78
    [] ch = "O" -> 79
    [] ch = "P" -> 80
    [] ch = "Q" -> 81
    [] ch = "R" -> 82
    [] ch = "S" -> 83
    [] ch = "T" -> 84
    [] ch = "U" -> 85
    [] ch = "V" -> 86
    [] ch = "W" -> 87
    [] ch = "X" -> 88
    [] ch = "Y" -> 89
    [] ch = "Z" -> 90
    [] ch = "a" -> 97
    [] ch = "b" -> 98
    [] ch = "c" -> 99
    [] ch = "d" -> 100
    [] ch = "e" -> 101
    [] ch = "f" -> 102
    [] ch = "g" -> 103
    [] ch = "h" -> 104
    [] ch = "i" -> 105
    [] ch = "j" -> 106
    [] ch = "k" -> 107
    [] ch = "l" -> 108
    [] ch = "m" -> 109
    [] ch = "n" -> 110
    [] ch = "o" -> 111
    [] ch = "p" -> 112
    [] ch = "q" -> 113
    [] ch = "r" -> 114
    [] ch = "s" -> 115
    [] ch = "t" -> 116
    [] ch = "u" -> 117
    [] ch = "v" -> 118
    [] ch = "w" -> 119
    [] ch = "x" -> 120
    [] ch = "y" -> 121
    [] ch = "z" -> 122
    [] OTHER -> 63

RECURSIVE StrLess(_, _)
\* a < b for Go strings: byte by byte, a proper prefix first
StrLess(a, b) ==
  IF b = <<>> THEN FALSE
  ELSE IF a = <<>> THEN TRUE
  ELSE IF CharCode(Head(a)) # CharCode(Head(b)) THEN CharCode(Head(a)) < CharCode(Head(b))
  ELSE StrLess(Tail(a), Tail(b))

-----------------------------------------------------------------------------
(* UTF-8 *)

\* the UTF-8 encoding of one code point
EncodeRune(r) ==
  IF r < 128 THEN <<r>>
  ELSE IF r < 2048 THEN <<192 + (r \div 64), 128 + (r % 64)>>
  ELSE IF r < 65536
    THEN <<224 + (r \div 4096), 128 + ((r \div 64) % 64), 128 + (r % 64)>>
  ELSE <<240 + (r \div 262144), 128 + ((r \div 4096) % 64),
         128 + ((r \div 64) % 64), 128 + (r % 64)>>

RECURSIVE EncodeRunes(_)
\* string(runes)
EncodeRunes(runes) ==
  IF runes = <<>> THEN <<>> ELSE EncodeRune(Head(runes)) \o EncodeRunes(Tail(runes))

IsCont(b) == b >= 128 /\ b <= 191

\* the number of bytes the first rune of the non-empty byte string s takes:
\* a byte that starts no valid encoding is decoded alone (as U+FFFD)
RuneWidth(s) ==
  LET b == s[1]
      n == Len(s)
  IN IF b < 128 THEN 1
     ELSE IF b >= 194 /\ b <= 223
       THEN IF n >= 2 /\ IsCont(s[2]) THEN 2 ELSE 1
     ELSE IF b >= 224 /\ b <= 239
       THEN IF /\ n >= 3 /\ IsCont(s[2]) /\ IsCont(s[3])
               /\ (b = 224 => s[2] >= 160)
               /\ (b = 237 => s[2] <= 159)
            THEN 3 ELSE 1
     ELSE IF b >= 240 /\ b <= 244
       THEN IF /\ n >= 4 /\ IsCont(s[2]) /\ IsCont(s[3]) /\ IsCont(s[4])
               /\ (b = 240 => s[2] >= 144)
               /\ (b = 244 => s[2] <= 143)
            THEN 4 ELSE 1
     ELSE 1

RECURSIVE RuneCount(_)
\* len([]rune(str))
RuneCount(s) ==
  IF s = <<>> THEN 0 ELSE 1 + RuneCount(SubSeq(s, RuneWidth(s) + 1, Len(s)))

-----------------------------------------------------------------------------
(* violations *)

\* the nil Error
NoError == [isnil |-> TRUE, Message |-> [text |-> "", arg |-> <<>>, num |-> 0],
            FieldName |-> <<>>]

\* a message: a text set by the caller, or the text of a format with its
\* arguments (the field name and the number of the rule)
Msg(text, arg, num) == [text |-> text, arg |-> arg, num |-> num]

NewError(message, fieldName) ==
  [isnil |-> FALSE, Message |-> message, FieldName |-> fieldName]

\* createError that never takes the custom message
createErrorFallbackOnly(field, custom, fallback) == NewError(fallback, field)

createError(field, custom, fallback) ==
  IF custom # "" THEN NewError(Msg(custom, <<>>, 0), field)
  ELSE NewError(fallback, field)

-----------------------------------------------------------------------------
(* validators: c is the validator object, value the Go value it is given *)

\* a validator object: the fields of the validator structs
Validator(kind, num, optional, message) ==
  [kind |-> kind, name |-> <<>>, message |-> message, num |-> num,
   optional |-> optional]

RequiredValidate(c, value) ==
  LET kind == KindOf(value)
      zero ==
        IF ~IsValid(value) THEN TRUE
        ELSE IF IsZero(value) THEN TRUE
        ELSE IF (kind = "ptr" \/ kind = "interface") /\ IsZero(value.elem[1]) THEN TRUE
        ELSE IF (kind = "array" \/ kind = "slice" \/ kind = "map") /\ value.n = 0 THEN TRUE
        ELSE FALSE
  IN IF zero
     THEN createError(c.name, c.message,
                      Msg("Please enter the %v", jsonFieldName(c.name), 0))
     ELSE NoError

\* MinLength that measures the text by len(str), in bytes
MinLengthValidateBytes(c, value) ==
  LET ok == value.kind = "string"
      str == value.s
      err == createError(c.name, c.message,
               Msg("Please lengthen %s to %d characters or more",
                   jsonFieldName(c.name), c.num))
  IN IF ~ok THEN (IF c.optional THEN NoError ELSE err)
     ELSE IF c.optional /\ str = <<>> THEN NoError
     ELSE IF Len(str) < c.num THEN err
     ELSE NoError

\* MaxLength that rejects a text of exactly max code points
MaxLengthValidateInclusive(c, value) ==
  LET ok == value.kind = "string"
      v == value.s
  IN IF ~ok THEN NoError
     ELSE IF RuneCount(v) >= c.num
       THEN createError(c.name, c.message,
              Msg("Please shorten %s to %d characters or less",
                  jsonFieldName(c.name), c.num))
     ELSE NoError

MinLengthValidate(c, value) ==
  LET ok == value.kind = "string"
      str == value.s
      err == createError(c.name, c.message,
               Msg("Please lengthen %s to %d characters or more",
                   jsonFieldName(c.name), c.num))
  IN IF ~ok THEN (IF c.optional THEN NoError ELSE err)
     ELSE IF c.optional /\ str = <<>> THEN NoError
     ELSE IF RuneCount(str) < c.num THEN err
     ELSE NoError

MaxLengthValidate(c, value) ==
  LET ok == value.kind = "string"
      v == value.s
  IN IF ~ok THEN NoError
     ELSE IF RuneCount(v) > c.num
       THEN createError(c.name, c.message,
              Msg("Please shorten %s to %d characters or less",
                  jsonFieldName(c.name), c.num))
     ELSE NoError

\* a caller's checker for FieldFunc, in the manner of TestFieldFunc: the text
\* "bad" is not allowed
FieldFuncValidate(c, value) ==
  IF value.kind = "string" /\ value.s = Ascii(<<"b", "a", "d">>)
  THEN NewError(Msg("Invalid field", <<>>, 0), c.name)
  ELSE NoError

\* a caller's checker for StructFunc, as compareValidator of the tests: it
\* inspects a struct and rejects one it finds wrong
StructFuncValidate(c, value) ==
  IF value.kind = "struct" /\ value.nz
  THEN NewError(Msg("comparison failed", <<>>, 0), <<>>)
  ELSE NoError

\* isLess(value, min, optional)
isLess(value, min, optional) ==
  IF optional /\ value = 0 THEN FALSE
  ELSE IF value < min THEN TRUE
  ELSE FALSE

\* isMore(value, max)
isMore(value, max) == value > max

\* float64(n) for an int64 n, in halves (exact: the numbers of the model are
\* far below 2^53)
ToFloat64(n) == 2 * n

\* the kinds of value the switch of MinValidator.Validate and of
\* MaxValidator.Validate has a case for: the signed integers, the floating
\* point numbers and the invalid Value
MinSupports(value) == KindOf(value) \in {"int", "float", "invalid"}

\* MinValidator.Validate for a value it supports
MinValidate(c, value) ==
  LET newError == createError(c.name, c.message,
                    Msg("Please increase %s to be %v or more",
                        jsonFieldName(c.name), c.num))
  IN IF KindOf(value) = "int"
     THEN (IF isLess(value.n, c.num, c.optional) THEN newError ELSE NoError)
     ELSE IF KindOf(value) = "float"
     THEN (IF isLess(value.n, ToFloat64(c.num), c.optional) THEN newError ELSE NoError)
     ELSE (IF ~c.optional THEN newError ELSE NoError)

\* MaxValidator.Validate for a value it supports
MaxValidate(c, value) ==
  LET newError == createError(c.name, c.message,
                    Msg("Please decrease %s to be %v or less",
                        jsonFieldName(c.name), c.num))
  IN IF KindOf(value) = "int"
     THEN (IF isMore(value.n, c.num) THEN newError ELSE NoError)
     ELSE IF KindOf(value) = "float"
     THEN (IF isMore(value.n, ToFloat64(c.num)) THEN newError ELSE NoError)
     ELSE NoError

\* the bytes of digits, of letters and digits, and of the characters the
\* local part of an address is made of
IsDigit(b) == b \in 48..57
IsAlnum(b) == b \in 48..57 \cup 65..90 \cup 97..122
IsLocalChar(b) ==
  IsAlnum(b) \/ b \in {46, 33, 35, 36, 37, 38, 39, 42, 43, 47, 61, 63, 94, 95, 96,
                       123, 124, 125, 126, 45}

\* regexp `\d{2}`, the pattern of TestPattern: two digits in a row, anywhere
MatchTwoDigits(str) ==
  \E i \in 1..(Len(str) - 1) : IsDigit(str[i]) /\ IsDigit(str[i + 1])

\* one label of the domain of emailRegex:
\* [a-zA-Z0-9](?:[a-zA-Z0-9-]{0,61}[a-zA-Z0-9])?
MatchLabel(l) ==
  /\ Len(l) \in 1..63
  /\ IsAlnum(l[1]) /\ IsAlnum(l[Len(l)])
  /\ \A i \in DOMAIN l : IsAlnum(l[i]) \/ l[i] = 45

\* emailRegex.MatchString(str): a local part, one @, labels joined by dots
MatchEmail(str) ==
  \E at \in DOMAIN str :
    /\ str[at] = 64
    /\ at > 1
    /\ \A i \in 1..(at - 1) : IsLocalChar(str[i])
    /\ LET labels == Split(SubSeq(str, at + 1, Len(str)), 46)
       IN \A k \in DOMAIN labels : MatchLabel(labels[k])

\* PatternValidator.Validate of Pattern(`\d{2}`)
PatternValidate(c, value) ==
  LET ok == value.kind = "string"
      err == createError(c.name, c.message,
               Msg("Please correct %s into a valid format", jsonFieldName(c.name), 0))
  IN IF ~ok THEN (IF c.optional THEN NoError ELSE err)
     ELSE IF c.optional /\ value.s = <<>> THEN NoError
     ELSE IF MatchTwoDigits(value.s) THEN NoError
     ELSE err

\* EmailValidator.Validate
EmailValidate(c, value) ==
  LET ok == value.kind = "string"
      err == createError(c.name, c.message,
               Msg("Please use a valid email address for %s", jsonFieldName(c.name), 0))
  IN IF ~ok THEN (IF c.optional THEN NoError ELSE err)
     ELSE IF c.optional /\ value.s = <<>> THEN NoError
     ELSE IF MatchEmail(value.s) THEN NoError
     ELSE err

\* Options(options...): a validator object that holds the accepted values
OptionsValidator(options) ==
  [kind |-> "Options", name |-> <<>>, message |-> "", num |-> 0,
   optional |-> FALSE, options |-> options]

\* opt == actual of two interface values panics when both hold the same
\* type and the type is not comparable
Uncomparable(opt, actual) ==
  opt.kind = actual.kind /\ actual.kind \in {"slice", "map", "mapStrAny"}

RECURSIVE optionsLoop(_, _, _)
\* the loop of OptionsValidator.Validate over c.options
optionsLoop(c, actual, options) ==
  IF options = <<>>
  THEN [panic |-> "",
        err |-> createError(c.name, c.message,
                  Msg("Please select one of the valid options for %s",
                      jsonFieldName(c.name), 0))]
  ELSE IF Uncomparable(Head(options), actual)
  THEN [panic |-> "comparing uncomparable type", err |-> NoError]
  ELSE IF Head(options) = actual THEN [panic |-> "", err |-> NoError]
  ELSE optionsLoop(c, actual, Tail(options))

\* OptionsValidator.Validate: reflect.ValueOf(value).Interface() panics on the
\* invalid Value that reflect.ValueOf makes of nil
OptionsRun(c, value) ==
  IF ~IsValid(value)
  THEN [panic |-> "reflect: call of reflect.Value.Interface on zero Value",
        err |-> NoError]
  ELSE optionsLoop(c, value, c.options)

OptionsValidate(c, value) == OptionsRun(c, value).err

\* the panic of Validator.Validate for the value, or "" when it returns
ValidatorPanic(c, value) ==
  IF c.kind \in {"Min", "Max"} /\ ~MinSupports(value)
  THEN "type not supported"
  ELSE IF c.kind = "Options" THEN OptionsRun(c, value).panic
  ELSE ""

\* Validator.Validate, dispatched on the dynamic type of the validator
ValidatorValidate(c, value) ==
  CASE c.kind = "Required" -> RequiredValidate(c, value)
    [] c.kind = "MinLength" -> MinLengthValidate(c, value)
    [] c.kind = "MaxLength" -> MaxLengthValidate(c, value)
    [] c.kind = "Min" -> MinValidate(c, value)
    [] c.kind = "Max" -> MaxValidate(c, value)
    [] c.kind = "Pattern" -> PatternValidate(c, value)
    [] c.kind = "Email" -> EmailValidate(c, value)
    [] c.kind = "Options" -> OptionsValidate(c, value)
    [] c.kind = "FieldFunc" -> FieldFuncValidate(c, value)
    [] c.kind = "StructFunc" -> StructFuncValidate(c, value)

-----------------------------------------------------------------------------
(* record instances and their decomposition *)

RECURSIVE ValuePaths(_)
\* the fields that hold a value of their own in an instance: every field that
\* is no embedded struct, also under embedded structs
ValuePaths(fs) ==
  UNION { IF fs[i].anon /\ fs[i].kind = "struct"
          THEN { <<i>> \o p : p \in ValuePaths(fs[i].fields) }
          ELSE { <<i>> } : i \in 1..Len(fs) }

\* a map[string]any: a list of bindings, of which the last one for a key counts.
\* A binding holds a nested map[string]any (ismap) or another value.
MapEntry(m, v) == [ismap |-> TRUE, m |-> m, v |-> v]
ValEntry(v) == [ismap |-> FALSE, m |-> <<>>, v |-> v]

\* vmap[name] = x
Put(vmap, name, entry) == Append(vmap, [key |-> name, entry |-> entry])

RECURSIVE Lookup(_, _)
\* vmap[name]: the nil interface when the key is missing
Lookup(vmap, name) ==
  IF vmap = <<>> THEN ValEntry(Invalid)
  ELSE IF vmap[Len(vmap)].key = name THEN vmap[Len(vmap)].entry
  ELSE Lookup(SubSeq(vmap, 1, Len(vmap) - 1), name)

\* f.Interface() as the type switch of Validate sees it: a field of the type
\* map[string]any is a map[string]any (the model gives such a map no key that
\* is an export name)
EntryOfValue(v) ==
  IF v.kind = "mapStrAny" THEN MapEntry(<<>>, v) ELSE ValEntry(v)

RECURSIVE structToMap(_, _, _)
RECURSIVE mapLoop(_, _, _, _, _)

\* the loop of structToMap at index i (counting down to 1); prefix is the path
\* of the struct in the record, inst the values of the record
mapLoop(fs, inst, prefix, i, vmap) ==
  IF i = 0 THEN [panic |-> "", m |-> vmap]
  ELSE
    LET sf == fs[i]
        name == ExportName(sf)
    IN IF sf.exported
       THEN IF sf.anon
            THEN LET sub == structToMap(sf, inst, Append(prefix, i))
                 IN IF sub.panic # "" THEN sub
                    ELSE mapLoop(fs, inst, prefix, i - 1,
                                 Put(vmap, name, MapEntry(sub.m, Invalid)))
            ELSE mapLoop(fs, inst, prefix, i - 1,
                         Put(vmap, name, EntryOfValue(inst[Append(prefix, i)])))
       ELSE mapLoop(fs, inst, prefix, i - 1, vmap)

\* structToMap of the value of the field descriptor sv: NumField panics on a
\* value that is not a struct
structToMap(sv, inst, prefix) ==
  IF sv.kind # "struct"
  THEN [panic |-> "reflect: call of NumField on non-struct", m |-> <<>>]
  ELSE mapLoop(sv.fields, inst, prefix, Len(sv.fields), <<>>)

\* the subject of Validate as a Go value: the record, or a pointer to it
SubjectValue(subject) ==
  LET rec == StructV(\E p \in DOMAIN subject.inst : ~IsZero(subject.inst[p]))
  IN IF subject.byRef THEN PtrV(rec) ELSE rec

\* the field descriptor of the subject as structToMap is given it
SubjectDescriptor(fs, subject) ==
  [Embedded(fs) EXCEPT !.anon = FALSE,
                       !.kind = IF subject.byRef THEN "ptr" ELSE "struct"]

-----------------------------------------------------------------------------
(* Rules.Validate *)

RECURSIVE walkFromTop(_, _, _, _, _)
\* a walk that finds a nested map and does not descend into it
walkFromTop(c, path, v, err, calls) ==
  IF path = <<>> THEN [panic |-> "", err |-> err, calls |-> calls]
  ELSE
    LET e == Lookup(v, Head(path))
    IN IF e.ismap THEN walkFromTop(c, Tail(path), v, err, calls)
       ELSE IF ValidatorPanic(c, e.v) # ""
         THEN [panic |-> ValidatorPanic(c, e.v), err |-> err, calls |-> calls]
       ELSE LET got == ValidatorValidate(c, e.v)
            IN walkFromTop(c, Tail(path), v, got,
                           Append(calls, [value |-> e.v, err |-> got]))

RECURSIVE walk(_, _, _, _, _)
\* the loop over the path of a field validator: v is the map reached so far,
\* err the error so far, calls the invocations of the validator so far
walk(c, path, v, err, calls) ==
  IF path = <<>> THEN [panic |-> "", err |-> err, calls |-> calls]
  ELSE
    LET e == Lookup(v, Head(path))
    IN IF e.ismap THEN walk(c, Tail(path), e.m, err, calls)
       ELSE IF ValidatorPanic(c, e.v) # ""
         THEN [panic |-> ValidatorPanic(c, e.v), err |-> err, calls |-> calls]
       ELSE LET got == ValidatorValidate(c, e.v)
            IN walk(c, Tail(path), v, got,
                    Append(calls, [value |-> e.v, err |-> got]))

\* one turn of the loop over the validators
validateOne(c, subject, vmap) ==
  IF c.name = <<>>
  THEN IF ValidatorPanic(c, SubjectValue(subject)) # ""
       THEN [panic |-> ValidatorPanic(c, SubjectValue(subject)),
             err |-> NoError, calls |-> <<>>]
       ELSE LET got == ValidatorValidate(c, SubjectValue(subject))
            IN [panic |-> "", err |-> got,
                calls |-> <<[value |-> SubjectValue(subject), err |-> got]>>]
  ELSE walk(c, Split(c.name, "."), vmap, NoError, <<>>)

\* what a Validate call that panicked leaves
Panic(msg) == [panic |-> msg, isnil |-> FALSE, errs |-> <<>>, log |-> <<>>]

\* the return of Validate with the violations errs
Return(errs, log) ==
  IF Len(errs) > 0
  THEN [panic |-> "", isnil |-> FALSE, errs |-> errs, log |-> log]
  ELSE [panic |-> "", isnil |-> TRUE, errs |-> <<>>, log |-> log]

RECURSIVE validateLoop(_, _, _, _, _, _)
validateLoop(vs, subject, vmap, k, errs, log) ==
  IF k > Len(vs) THEN Return(errs, log)
  ELSE
    LET one == validateOne(vs[k], subject, vmap)
    IN IF one.panic # "" THEN Panic(one.panic)
       ELSE validateLoop(vs, subject, vmap, k + 1,
                         IF ~one.err.isnil THEN Append(errs, one.err) ELSE errs,
                         Append(log, one.calls))

\* Rules.Validate(subject) for the validators vs (the validator objects of
\* r.validators, in order) of a chain for the record type fs.
\*   panic: the panic that ended the call, or ""
\*   isnil: the call returned nil;  errs: the Errors it returned
\*   log: for every validator, in order, its invocations (value and result)
RulesValidate(vs, fs, subject) ==
  LET made == structToMap(SubjectDescriptor(fs, subject), subject.inst, <<>>)
  IN IF made.panic # "" THEN Panic(made.panic)
     ELSE validateLoop(vs, subject, made.m, 1, <<>>, <<>>)

-----------------------------------------------------------------------------
(* slices of validators: the heap of backing arrays *)

\* a slice header; array 0 is the empty array of make([]Validator, 0)
Slice(arr, len, cap) == [arr |-> arr, len |-> len, cap |-> cap]

\* the elements a slice exposes
Elements(heap, sl) ==
  IF sl.len = 0 THEN <<>> ELSE SubSeq(heap[sl.arr], 1, sl.len)

\* the capacity append gives a slice of capacity cap that must hold newLen
\* elements (runtime.growslice; interface values are 16 bytes, and up to 16
\* of them the size classes of the allocator fit exactly)
GrowCap(cap, newLen) ==
  IF newLen > 2 * cap THEN newLen ELSE 2 * cap

RECURSIVE WriteAt(_, _, _)
\* array with the elements of vs written from index from on
WriteAt(array, from, vs) ==
  IF vs = <<>> THEN array
  ELSE WriteAt([array EXCEPT ![from] = Head(vs)], from + 1, Tail(vs))

\* append that writes from the last element of the slice on, not behind it
GoAppendOverLast(heap, sl, vs) ==
  LET newLen == sl.len + Len(vs)
  IN IF newLen <= sl.cap
     THEN [heap |-> IF vs = <<>> \/ sl.len = 0 THEN heap
                    ELSE [heap EXCEPT ![sl.arr] = WriteAt(@, sl.len, vs)],
           slice |-> Slice(sl.arr, newLen, sl.cap)]
     ELSE LET newCap == GrowCap(sl.cap, newLen)
              fresh == [i \in 1..newCap |->
                          IF i <= sl.len THEN heap[sl.arr][i]
                          ELSE IF i <= newLen THEN vs[i - sl.len]
                          ELSE 0]
          IN [heap |-> Append(heap, fresh),
              slice |-> Slice(Len(heap) + 1, newLen, newCap)]

\* append(sl, vs...): the new heap and the new slice header
GoAppend(heap, sl, vs) ==
  LET newLen == sl.len + Len(vs)
  IN IF newLen <= sl.cap
     THEN [heap |-> IF vs = <<>> THEN heap
                    ELSE [heap EXCEPT ![sl.arr] = WriteAt(@, sl.len + 1, vs)],
           slice |-> Slice(sl.arr, newLen, sl.cap)]
     ELSE LET newCap == GrowCap(sl.cap, newLen)
              fresh == [i \in 1..newCap |->
                          IF i <= sl.len THEN heap[sl.arr][i]
                          ELSE IF i <= newLen THEN vs[i - sl.len]
                          ELSE 0]
          IN [heap |-> Append(heap, fresh),
              slice |-> Slice(Len(heap) + 1, newLen, newCap)]

-----------------------------------------------------------------------------
(* the rule chain *)

\* New(structPtr)
New(structPtr) == [validators |-> Slice(0, 0, 0), structPtr |-> structPtr]

RECURSIVE fieldLoop(_, _, _, _, _, _)
\* the loop of Rules.Field over its validators (ids of validator objects):
\* objs is the heap of validator objects, heap the heap of backing arrays
fieldLoop(fs, r, fieldPtr, ids, objs, heap) ==
  IF ids = <<>> THEN [panic |-> "", rules |-> r, objs |-> objs, heap |-> heap]
  ELSE
    LET got == getFieldName(fs, r.structPtr, fieldPtr)
    IN IF got.panic # ""
       THEN [panic |-> got.panic, rules |-> r, objs |-> objs, heap |-> heap]
       ELSE LET app == GoAppend(heap, r.validators, <<Head(ids)>>)
            IN fieldLoop(fs, [r EXCEPT !.validators = app.slice], fieldPtr, Tail(ids),
                         [objs EXCEPT ![Head(ids)].name = got.name], app.heap)

\* r.Field(fieldPtr, validators...): r is the callee's copy of the receiver
RulesField(fs, r, fieldPtr, ids, objs, heap) ==
  fieldLoop(fs, r, fieldPtr, ids, objs, heap)

\* r.Struct(validators...)
RulesStruct(r, ids, objs, heap) ==
  LET app == GoAppend(heap, r.validators, ids)
  IN [panic |-> "", rules |-> [r EXCEPT !.validators = app.slice],
      objs |-> objs, heap |-> app.heap]

\* r.Validators(), as validator ids
RulesValidators(r, heap) == Elements(heap, r.validators)

\* the validator objects behind a list of ids
Objects(ids, objs) == [i \in 1..Len(ids) |-> objs[ids[i]]]

-----------------------------------------------------------------------------
(* Rules.Validate step by step, as a goroutine runs it *)

\* the entry of Validate: r is the copy of the receiver, errs is made and the
\* subject decomposed; g is the goroutine's state
beginValidate(g, r, fs, subject) ==
  LET made == structToMap(SubjectDescriptor(fs, subject), subject.inst, <<>>)
  IN IF made.panic # ""
     THEN [g EXCEPT !.pc = "done", !.subject = subject, !.r = r,
                    !.result = Panic(made.panic)]
     ELSE [g EXCEPT !.pc = "loop", !.subject = subject, !.r = r,
                    !.vmap = made.m, !.k = 1, !.errs = <<>>, !.log = <<>>]

\* a validator that keeps the message of its last violation in its own field
stepValidateKeeping(objs, heap, g) ==
  IF g.k > g.r.validators.len
  THEN [objs |-> objs, g |-> [g EXCEPT !.pc = "done", !.result = Return(g.errs, g.log)]]
  ELSE
    LET id == heap[g.r.validators.arr][g.k]
        one == validateOne(objs[id], g.subject, g.vmap)
    IN IF one.panic # ""
       THEN [objs |-> objs, g |-> [g EXCEPT !.pc = "done", !.result = Panic(one.panic)]]
       ELSE [objs |-> IF one.err.isnil THEN objs
                      ELSE [objs EXCEPT ![id].message = "kept"],
             g |-> [g EXCEPT !.k = @ + 1,
                             !.errs = IF ~one.err.isnil THEN Append(@, one.err) ELSE @,
                             !.log = Append(@, one.calls)]]

\* one turn of the loop of Validate, or its return when the loop is over:
\* the validator objects after the turn, and the goroutine's state
stepValidate(objs, heap, g) ==
  IF g.k > g.r.validators.len
  THEN [objs |-> objs, g |-> [g EXCEPT !.pc = "done", !.result = Return(g.errs, g.log)]]
  ELSE
    LET id == heap[g.r.validators.arr][g.k]
        one == validateOne(objs[id], g.subject, g.vmap)
    IN IF one.panic # ""
       THEN [objs |-> objs, g |-> [g EXCEPT !.pc = "done", !.result = Panic(one.panic)]]
       ELSE [objs |-> objs,
             g |-> [g EXCEPT !.k = @ + 1,
                             !.errs = IF ~one.err.isnil THEN Append(@, one.err) ELSE @,
                             !.log = Append(@, one.calls)]]

-----------------------------------------------------------------------------
(* the resolver as a state machine: one call of getFieldName *)

\* the record references a caller can pass: &r, a nil *T, r itself, a *int
StructPtrs ==
  { [kind |-> "ptr", isnil |-> FALSE, elem |-> "struct", addr |-> InstanceAddr(1)],
    [kind |-> "ptr", isnil |-> TRUE, elem |-> "struct", addr |-> 0],
    [kind |-> "struct", isnil |-> FALSE, elem |-> "", addr |-> 0],
    [kind |-> "ptr", isnil |-> FALSE, elem |-> "word", addr |-> InstanceAddr(1)] }

\* the field references a caller can pass for the record type fs: the address
\* of a field of the registered instance or of another instance, or a field
\* passed by value
FieldPtrs(fs) ==
  { [kind |-> "ptr", path |-> p, inst |-> i, addr |-> AddrOfPath(fs, InstanceAddr(i), p)] :
      p \in Paths(fs), i \in {1, 2} }
  \cup { [kind |-> "word", path |-> <<>>, inst |-> 1, addr |-> 0] }

NoAnswer == [panic |-> "not called", name |-> <<>>]

NoQuery == [structPtr |-> [kind |-> "", isnil |-> TRUE, elem |-> "", addr |-> 0],
            fieldPtr |-> [kind |-> "", path |-> <<>>, inst |-> 0, addr |-> 0]]

NoCall == [op |-> "none"]

\* the goroutines that call Validate
Goroutines == {1, 2}

\* a goroutine that has not called Validate
NotCalled ==
  [pc |-> "idle", subject |-> [inst |-> <<>>, byRef |-> FALSE],
   r |-> [validators |-> [arr |-> 0, len |-> 0, cap |-> 0], structPtr |-> <<>>],
   vmap |-> <<>>, k |-> 0, errs |-> <<>>, log |-> <<>>,
   result |-> [panic |-> "not returned", isnil |-> FALSE, errs |-> <<>>, log |-> <<>>],
   alone |-> [panic |-> "not returned", isnil |-> FALSE, errs |-> <<>>, log |-> <<>>],
   seen |-> [objs |-> <<>>, heap |-> <<>>, rs |-> <<>>], overlap |-> FALSE]

\* the variables in which the caller keeps Rules values
Handles == {"base", "f1", "f2"}

\* &r of the registered instance
ValidStructPtr ==
  [kind |-> "ptr", isnil |-> FALSE, elem |-> "struct", addr |-> InstanceAddr(1)]

\* no chain is built
NoChain ==
  /\ vobjs = <<>>
  /\ arrays = <<>>
  /\ rs = [h \in Handles |-> New(ValidStructPtr)]
  /\ bound = [h \in Handles |-> <<>>]
  /\ call = NoCall
  /\ inflight = [g \in Goroutines |-> NotCalled]

ResolveInit ==
  /\ recType \in RecordTypes
  /\ query \in [structPtr : StructPtrs, fieldPtr : FieldPtrs(recType)]
  /\ answer = NoAnswer
  /\ NoChain

Resolve ==
  /\ answer = NoAnswer
  /\ answer' = getFieldName(recType, query.structPtr, query.fieldPtr)
  /\ UNCHANGED <<recType, query, vobjs, arrays, rs, bound, call, inflight>>

ResolveNext == Resolve

SpecResolve == ResolveInit /\ [][ResolveNext]_vars

-----------------------------------------------------------------------------
(* C1 *)

\* every field on the way to the field at path p is an embedded struct
RECURSIVE ThroughEmbedding(_, _)
ThroughEmbedding(fs, p) ==
  \/ Len(p) = 1
  \/ /\ fs[p[1]].anon /\ fs[p[1]].kind = "struct"
     /\ ThroughEmbedding(fs[p[1]].fields, Tail(p))

\* the export names of the fields on the way to the field at path p, and of it
RECURSIVE NamesAlong(_, _)
NamesAlong(fs, p) ==
  IF Len(p) = 1 THEN <<ExportName(fs[p[1]])>>
  ELSE <<ExportName(fs[p[1]])>> \o NamesAlong(fs[p[1]].fields, Tail(p))

\* the call resolves a field of the registered record that is no struct itself
\* and lies under at most two embedded structs
ResolvesField ==
  /\ answer # NoAnswer
  /\ query.structPtr = ValidStructPtr
  /\ query.fieldPtr.kind = "ptr" /\ query.fieldPtr.inst = 1
  /\ Len(query.fieldPtr.path) <= 3
  /\ ThroughEmbedding(recType, query.fieldPtr.path)
  /\ FieldAt(recType, query.fieldPtr.path).kind # "struct"

\* C1: resolving a reference to a field reachable through 0, 1 or 2 levels of
\* embedding returns the export names of the embedding fields and of the field,
\* outer to inner: as many segments as the field has levels, plus one.
C1_ResolvesToExportNames ==
  ResolvesField =>
    /\ answer.panic = ""
    /\ Split(answer.name, ".") = NamesAlong(recType, query.fieldPtr.path)


-----------------------------------------------------------------------------
(* building a chain and validating with it *)

\* the validator objects of the program: Required(), a FieldFunc and a
\* StructFunc
ValidatorPool ==
  << Validator("Required", 0, FALSE, ""),
     Validator("FieldFunc", 0, FALSE, ""),
     Validator("StructFunc", 0, FALSE, "") >>

\* the argument lists of one Field or Struct call: one or two validators
ArgLists ==
  { <<i>> : i \in DOMAIN vobjs } \cup { <<i, j>> : i \in DOMAIN vobjs, j \in DOMAIN vobjs }

\* the values a field can hold, by the kind of the field
FieldValues(sf) ==
  CASE sf.kind = "word" ->
         { IntV(0), StrV(Ascii(<<"b", "a", "d">>)), MapStrAnyV(TRUE, 0) }
    [] sf.kind = "zero" -> { StructV(FALSE) }
    [] sf.kind = "struct" -> { StructV(FALSE), StructV(TRUE) }
    [] sf.kind = "ptr" -> { NilPtrV }

\* the instances of the record type fs
Instances(fs) ==
  { inst \in [ValuePaths(fs) -> UNION { FieldValues(FieldAt(fs, p)) : p \in ValuePaths(fs) }] :
      \A p \in ValuePaths(fs) : inst[p] \in FieldValues(FieldAt(fs, p)) }

\* the field reference &r.p of the registered instance
FieldPtrOf(fs, p) ==
  [kind |-> "ptr", path |-> p, inst |-> 1, addr |-> AddrOfPath(fs, InstanceAddr(1), p)]

ChainInit ==
  /\ query = NoQuery
  /\ answer = NoAnswer
  /\ vobjs = ValidatorPool
  /\ arrays = <<>>
  /\ rs = [h \in Handles |-> New(ValidStructPtr)]
  /\ bound = [h \in Handles |-> <<>>]
  /\ call = NoCall
  /\ inflight = [g \in Goroutines |-> NotCalled]

\* dst = src.Field(&r.p, ids...), objs the validator objects at the call
CallField(src, dst, p, ids, objs) ==
  LET out == RulesField(recType, rs[src], FieldPtrOf(recType, p), ids, objs, arrays)
  IN /\ vobjs' = out.objs
     /\ arrays' = out.heap
     /\ call' = [op |-> "Field", src |-> src, dst |-> dst, path |-> p, ids |-> ids,
                 panic |-> out.panic, recv |-> rs[src],
                 before |-> RulesValidators(rs[src], arrays)]
     /\ IF out.panic = ""
        THEN /\ rs' = [rs EXCEPT ![dst] = out.rules]
             /\ bound' = [bound EXCEPT ![dst] = bound[src] \o [i \in 1..Len(ids) |-> p]]
        ELSE UNCHANGED <<rs, bound>>
     /\ UNCHANGED <<recType, query, answer, inflight>>

\* dst = src.Struct(ids...)
CallStruct(src, dst, ids, objs) ==
  LET out == RulesStruct(rs[src], ids, objs, arrays)
  IN /\ vobjs' = out.objs
     /\ arrays' = out.heap
     /\ call' = [op |-> "Struct", src |-> src, dst |-> dst, path |-> <<>>, ids |-> ids,
                 panic |-> out.panic, recv |-> rs[src],
                 before |-> RulesValidators(rs[src], arrays)]
     /\ rs' = [rs EXCEPT ![dst] = out.rules]
     /\ bound' = [bound EXCEPT ![dst] = bound[src] \o [i \in 1..Len(ids) |-> <<>>]]
     /\ UNCHANGED <<recType, query, answer, inflight>>

\* rs[h].Validate(subject)
CallValidate(h, subject) ==
  /\ call' = [op |-> "Validate", src |-> h, subject |-> subject,
              result |-> RulesValidate(Objects(RulesValidators(rs[h], arrays), vobjs),
                                        recType, subject)]
  /\ UNCHANGED <<recType, query, answer, vobjs, arrays, rs, bound, inflight>>

\* the record types that are validated
ValidateTypes == TypesUpTo(MaxValNodes)

ValidateInit ==
  /\ recType \in ValidateTypes
  /\ ChainInit

\* the chain of handle h has room for the validators ids, up to max
Room(h, ids, max) == rs[h].validators.len + Len(ids) <= max

VField ==
  /\ call.op # "Validate"
  /\ \E p \in Paths(recType), ids \in ArgLists :
       /\ Room("base", ids, MaxChain)
       /\ CallField("base", "base", p, ids, vobjs)

VStruct ==
  /\ call.op # "Validate"
  /\ \E ids \in ArgLists :
       /\ Room("base", ids, MaxChain)
       /\ CallStruct("base", "base", ids, vobjs)

VValidate ==
  /\ call.op # "Validate"
  /\ \E inst \in Instances(recType), byRef \in BOOLEAN :
       CallValidate("base", [inst |-> inst, byRef |-> byRef])

ValidateNext == VField \/ VStruct \/ VValidate

SpecValidate == ValidateInit /\ [][ValidateNext]_vars

-----------------------------------------------------------------------------
(* C2, C3, C6, C8: what Validate does with the chain *)

\* a Validate call has returned
Validated == call.op = "Validate" /\ call.result.panic = ""

RECURSIVE ReportedIn(_)
\* the violations a validator returned in its invocations, in order
ReportedIn(calls) ==
  IF calls = <<>> THEN <<>>
  ELSE (IF Head(calls).err.isnil THEN <<>> ELSE <<Head(calls).err>>)
       \o ReportedIn(Tail(calls))

RECURSIVE AllReported(_)
\* the violations the validators returned, in the order of the chain
AllReported(log) ==
  IF log = <<>> THEN <<>> ELSE ReportedIn(Head(log)) \o AllReported(Tail(log))

\* the validators of the chain that was validated
ValidatedChain == RulesValidators(rs[call.src], arrays)

\* C2: Validate invokes every bound validator, in registration order and
\* without early exit, and returns exactly the violations the validators
\* reported, in the registration order of the validators.
C2_EveryValidatorRuns ==
  Validated =>
    /\ Len(call.result.log) = Len(ValidatedChain)
    /\ \A k \in 1..Len(call.result.log) : Len(call.result.log[k]) >= 1
    /\ call.result.errs = AllReported(call.result.log)

\* C3: Validate returns nil exactly when no bound validator reported a
\* violation, and a collection of at least one element otherwise, for every
\* chain (the empty one too) and every subject.
C3_NilIffNoViolation ==
  Validated =>
    /\ call.result.isnil <=> (AllReported(call.result.log) = <<>>)
    /\ ~call.result.isnil => Len(call.result.errs) >= 1

\* C6: a validator that Field bound to a field is invoked, at validation, with
\* the value this field holds in the subject.
C6_BoundFieldIsValidated ==
  Validated =>
    \A k \in 1..Len(bound[call.src]) :
      LET p == bound[call.src][k]
      IN p \in ValuePaths(recType) =>
           /\ Len(call.result.log[k]) = 1
           /\ call.result.log[k][1].value = call.subject.inst[p]

\* the zero values of the types of the model
ZeroValues ==
  { IntV(0), StrV(<<>>), NilPtrV, SliceV(TRUE, 0), MapV(TRUE, 0),
    MapStrAnyV(TRUE, 0), StructV(FALSE) }
  \cup { ArrayV(n, FALSE) : n \in 0..2 }

\* empty in the sense of Required: absent, the zero value of its type, a pointer
\* to a zero value, or an array, slice or map of length 0
IsEmptyValue(v) ==
  \/ v = Invalid
  \/ v \in ZeroValues
  \/ v.kind = "ptr" /\ ~v.isnil /\ v.elem[1] \in ZeroValues
  \/ v.kind \in {"array", "slice", "map", "mapStrAny"} /\ v.n = 0

\* the chain is New(&r).Field(&r.p, Required())
OnlyRequiredOn(p) ==
  /\ bound[call.src] = <<p>>
  /\ vobjs[ValidatedChain[1]].kind = "Required"

\* C8: Required reports a violation exactly when the value is absent, zero, a
\* pointer to a zero value or an array, slice or map of length 0; so a chain
\* with Required on one field yields exactly one violation, for that field,
\* on a zero-valued record and none on a record whose field is not zero.
C8_RequiredOnOneField ==
  Validated =>
    /\ \A k \in 1..Len(call.result.log) :
         vobjs[ValidatedChain[k]].kind = "Required" =>
           \A i \in 1..Len(call.result.log[k]) :
             LET c == call.result.log[k][i]
             IN ~c.err.isnil <=> IsEmptyValue(c.value)
    /\ \A p \in ValuePaths(recType) :
         OnlyRequiredOn(p) =>
           /\ (\A q \in ValuePaths(recType) : call.subject.inst[q] \in ZeroValues)
                => /\ Len(call.result.errs) = 1
                   /\ jsonFieldName(call.result.errs[1].FieldName)
                        = ExportName(FieldAt(recType, p))
           /\ ~IsEmptyValue(call.subject.inst[p]) => call.result.isnil

-----------------------------------------------------------------------------------------------------------------------------------------------------
(* forking a chain: base, and two chains f1 and f2 made from it *)

\* the record type of the forked chains: struct { A int }
ForkType == Named(<<Leaf>>)

\* the calls a caller makes: x = x.Field(...) extends the chain it holds,
\* f = base.Field(...) forks base
ForkCalls ==
  { <<"base", "base">>, <<"base", "f1">>, <<"base", "f2">>,
    <<"f1", "f1">>, <<"f2", "f2">> }

\* the numbers of validators in one call
ArgCounts == {1, 2}

\* n validators made by Required() in the argument list of a call
Constructed(n) == [i \in 1..n |-> Validator("Required", 0, FALSE, "")]

\* the ids of the n validators made last
FreshIds(n) == [i \in 1..n |-> Len(vobjs) + i]

ForkInit ==
  /\ recType = ForkType
  /\ query = NoQuery
  /\ answer = NoAnswer
  /\ vobjs = <<>>
  /\ arrays = <<>>
  /\ rs = [h \in Handles |-> New(ValidStructPtr)]
  /\ bound = [h \in Handles |-> <<>>]
  /\ call = NoCall
  /\ inflight = [g \in Goroutines |-> NotCalled]

FField ==
  \E c \in ForkCalls, p \in Paths(recType), n \in ArgCounts :
    /\ Len(vobjs) + n <= MaxObjs
    /\ CallField(c[1], c[2], p, FreshIds(n), vobjs \o Constructed(n))

FStruct ==
  \E c \in ForkCalls, n \in ArgCounts :
    /\ Len(vobjs) + n <= MaxObjs
    /\ CallStruct(c[1], c[2], FreshIds(n), vobjs \o Constructed(n))

ForkNext == FField \/ FStruct

SpecFork == ForkInit /\ [][ForkNext]_vars

-----------------------------------------------------------------------------
(* two goroutines validate with one chain *)

\* the validator objects of the program: Required(), Min(1) and a StructFunc
ConcPool ==
  << Validator("Required", 0, FALSE, ""),
     Validator("Min", 1, FALSE, ""),
     Validator("StructFunc", 0, FALSE, "") >>

\* the subjects the goroutines validate
Subjects == [inst : Instances(recType), byRef : BOOLEAN]

\* the other goroutine
Other(g) == CHOOSE o \in Goroutines : o # g

ConcInit ==
  /\ recType = ForkType
  /\ query = NoQuery
  /\ answer = NoAnswer
  /\ vobjs = ConcPool
  /\ arrays = <<>>
  /\ rs = [h \in Handles |-> New(ValidStructPtr)]
  /\ bound = [h \in Handles |-> <<>>]
  /\ call = NoCall
  /\ inflight = [g \in Goroutines |-> NotCalled]

\* no goroutine has called Validate yet
Building == \A g \in Goroutines : inflight[g].pc = "idle"

KField ==
  /\ Building
  /\ \E p \in Paths(recType), ids \in ArgLists :
       /\ Room("base", ids, MaxChain)
       /\ CallField("base", "base", p, ids, vobjs)

KStruct ==
  /\ Building
  /\ \E ids \in ArgLists :
       /\ Room("base", ids, MaxChain)
       /\ CallStruct("base", "base", ids, vobjs)

\* goroutine g calls base.Validate(subject), with a subject of its own
KStart(g) ==
  /\ inflight[g].pc = "idle"
  /\ \E subject \in Subjects :
       /\ inflight[Other(g)].pc # "idle" => inflight[Other(g)].subject # subject
       /\ inflight' =
            [inflight EXCEPT ![g] =
               [beginValidate(@, rs["base"], recType, subject) EXCEPT
                  !.alone = RulesValidate(Objects(RulesValidators(rs["base"], arrays), vobjs),
                                          recType, subject),
                  !.seen = [objs |-> vobjs, heap |-> arrays, rs |-> rs]]]
  /\ UNCHANGED <<recType, query, answer, vobjs, arrays, rs, bound, call>>

\* goroutine g runs one turn of the loop of Validate
KStep(g) ==
  /\ inflight[g].pc = "loop"
  /\ LET out == stepValidate(vobjs, arrays, inflight[g])
     IN /\ vobjs' = out.objs
        /\ inflight' =
             [inflight EXCEPT ![g] =
                [out.g EXCEPT !.overlap = @ \/ inflight[Other(g)].pc = "loop"]]
  /\ UNCHANGED <<recType, query, answer, arrays, rs, bound, call>>

ConcNext == KField \/ KStruct \/ (\E g \in Goroutines : KStart(g) \/ KStep(g))

SpecConc == ConcInit /\ [][ConcNext]_vars

-----------------------------------------------------------------------------
(* the length validators on texts *)

\* code points of one, two, three and four bytes: a, e acute, U+4E16, U+1F600
Runes == {97, 233, 19990, 128512}

RECURSIVE TextsOf(_)
\* the sequences of exactly n code points
TextsOf(n) ==
  IF n = 0 THEN { <<>> }
  ELSE { <<r>> \o t : r \in Runes, t \in TextsOf(n - 1) }

\* the texts of at most MaxRunes code points
Texts == UNION { TextsOf(n) : n \in 0..MaxRunes }

\* the lengths a rule is made with
Lengths == (0 - 1)..(MaxRunes + 1)

LenInit ==
  /\ recType = ForkType
  /\ query \in [runes : Texts, n : Lengths, optional : BOOLEAN]
  /\ answer = NoAnswer
  /\ NoChain

\* the string value of the text of the query
TextValue == StrV(EncodeRunes(query.runes))

\* MinLength(n).Validate(text), with SetOptional() when the query says so
LMinLength ==
  /\ call = NoCall
  /\ call' = [op |-> "MinLength",
              err |-> MinLengthValidate(Validator("MinLength", query.n, query.optional, ""),
                                        TextValue)]
  /\ UNCHANGED <<recType, query, answer, vobjs, arrays, rs, bound, inflight>>

\* MaxLength(n).Validate(text)
LMaxLength ==
  /\ call = NoCall
  /\ call' = [op |-> "MaxLength",
              err |-> MaxLengthValidate(Validator("MaxLength", query.n, FALSE, ""),
                                        TextValue)]
  /\ UNCHANGED <<recType, query, answer, vobjs, arrays, rs, bound, inflight>>

LenNext == LMinLength \/ LMaxLength

SpecLen == LenInit /\ [][LenNext]_vars

-----------------------------------------------------------------------------
(* Min and Max on numeric fields *)

\* the values of a numeric field: signed and unsigned integers, and floating
\* point numbers in steps of one half
Numbers ==
  { IntV(n) : n \in (0 - MaxNum)..MaxNum }
  \cup { UintV(n) : n \in 0..MaxNum }
  \cup { FloatV(h) : h \in (0 - 2 * MaxNum)..(2 * MaxNum) }

\* the numbers a Min or Max rule is made with
Limits == (0 - 1)..MaxNum

NumInit ==
  /\ recType = ForkType
  /\ query \in [value : Numbers, n : Limits, optional : BOOLEAN]
  /\ answer = NoAnswer
  /\ NoChain

\* c.Validate(value) for the value of the query: its panic or its return
Invoke(op, c) ==
  /\ call = NoCall
  /\ call' = [op |-> op, panic |-> ValidatorPanic(c, query.value),
              err |-> IF ValidatorPanic(c, query.value) # "" THEN NoError
                      ELSE ValidatorValidate(c, query.value)]
  /\ UNCHANGED <<recType, query, answer, vobjs, arrays, rs, bound, inflight>>

\* Min(n).Validate(value), with SetOptional() when the query says so
NMin == Invoke("Min", Validator("Min", query.n, query.optional, ""))

\* Max(n).Validate(value)
NMax == Invoke("Max", Validator("Max", query.n, FALSE, ""))

NumNext == NMin \/ NMax

SpecNum == NumInit /\ [][NumNext]_vars

-----------------------------------------------------------------------------
(* a field two embeddings deep: struct { Outer }, Outer struct { Inner },
   Inner struct { Deep int } *)

\* the json tags of a field: none, a name, a name with an option, an option
Renames == { <<>>, <<"n">>, <<"n", ",", "o">>, <<",", "o">> }

\* the record type, the three fields tagged with outer, inner and deep
DeepType(outer, inner, deep) ==
  << [Embedded(
       << [Embedded(
            << [Leaf EXCEPT !.name = <<"D", "e", "e", "p">>, !.tag = deep] >>)
           EXCEPT !.name = <<"I", "n", "n", "e", "r">>, !.tag = inner] >>)
      EXCEPT !.name = <<"O", "u", "t", "e", "r">>, !.tag = outer] >>

DeepTypes == { DeepType(o, i, d) : o \in Renames, i \in Renames, d \in Renames }

\* the field Deep
DeepPath == <<1, 1, 1>>

\* the values of Deep that are validated
DeepValues == 0..6

DeepInit ==
  /\ recType \in DeepTypes
  /\ query = NoQuery
  /\ answer = NoAnswer
  /\ vobjs = << Validator("Min", 5, FALSE, "") >>
  /\ arrays = <<>>
  /\ rs = [h \in Handles |-> New(ValidStructPtr)]
  /\ bound = [h \in Handles |-> <<>>]
  /\ call = NoCall
  /\ inflight = [g \in Goroutines |-> NotCalled]

\* base = New(&r).Field(&r.Deep, Min(5))
DField ==
  /\ call = NoCall
  /\ CallField("base", "base", DeepPath, <<1>>, vobjs)

\* base.Validate(T{...Deep: d})
DValidate ==
  /\ call.op = "Field"
  /\ \E d \in DeepValues :
       CallValidate("base", [inst |-> (DeepPath :> IntV(d)), byRef |-> FALSE])

DeepNext == DField \/ DValidate

SpecDeep == DeepInit /\ [][DeepNext]_vars

-----------------------------------------------------------------------------
(* export of a rule chain: Rules.MarshalJSON *)

\* CanExport of a validator: false for the two function validators
CanExport(c) == c.kind \notin {"FieldFunc", "StructFunc"}

\* SetMessage(msg) on a validator object
SetMessage(c, msg) == [c EXCEPT !.message = msg]

\* one key of a serialized descriptor, its value a text or a number
Entry(key, text, num) == [key |-> key, text |-> text, num |-> num]

\* the "rule" entry of the descriptor of a validator
RuleEntry(c) ==
  CASE c.kind = "Required" -> Entry("rule", "required", 0)
    [] c.kind = "MinLength" -> Entry("rule", "minLength", 0)
    [] c.kind = "MaxLength" -> Entry("rule", "maxLength", 0)
    [] c.kind = "Min" -> Entry("rule", "min", 0)
    [] c.kind = "Max" -> Entry("rule", "max", 0)

\* the parameter entries of the descriptor of a validator
ParamEntries(c) ==
  CASE c.kind = "Required" -> <<>>
    [] c.kind \in {"MinLength", "Min"} -> << Entry("min", "", c.num) >>
    [] c.kind \in {"MaxLength", "Max"} -> << Entry("max", "", c.num) >>

\* the message entry of a descriptor written without omitempty
ValidatorMarshalJSONKeepEmpty(c) ==
  << RuleEntry(c) >> \o ParamEntries(c) \o << Entry("message", c.message, 0) >>

\* MarshalJSON of a validator: the rule, its parameters, and the message
\* unless it is empty (omitempty)
ValidatorMarshalJSON(c) ==
  << RuleEntry(c) >> \o ParamEntries(c) \o
  (IF c.message = "" THEN <<>> ELSE << Entry("message", c.message, 0) >>)

\* rmap[name], the empty list when the key is absent
GroupOf(rmap, name) ==
  IF \E i \in DOMAIN rmap : rmap[i].key = name
  THEN rmap[CHOOSE i \in DOMAIN rmap : rmap[i].key = name].rules
  ELSE <<>>

\* rmap[name] = rules
SetGroup(rmap, name, rules) ==
  IF \E i \in DOMAIN rmap : rmap[i].key = name
  THEN [i \in DOMAIN rmap |->
          IF rmap[i].key = name THEN [key |-> name, rules |-> rules] ELSE rmap[i]]
  ELSE Append(rmap, [key |-> name, rules |-> rules])

RECURSIVE rmapLoop(_, _, _)
\* the loop of Rules.MarshalJSON over the validators ids of the chain
rmapLoop(ids, objs, rmap) ==
  IF ids = <<>> THEN rmap
  ELSE LET v == objs[Head(ids)]
           name == jsonFieldName(v.name)
       IN IF ~CanExport(v) THEN rmapLoop(Tail(ids), objs, rmap)
          ELSE rmapLoop(Tail(ids), objs,
                        SetGroup(rmap, name, Append(GroupOf(rmap, name), Head(ids))))

RECURSIVE SortedKeys(_)
\* the keys of a map in the order encoding/json writes them: sorted
SortedKeys(keys) ==
  IF keys = {} THEN <<>>
  ELSE LET least == CHOOSE k \in keys : \A o \in keys \ {k} : StrLess(k, o)
       IN <<least>> \o SortedKeys(keys \ {least})

\* json.MarshalIndent(rmap): the groups by sorted key, every validator of a
\* group serialized by its own MarshalJSON
MarshalIndent(rmap, objs) ==
  LET keys == SortedKeys({ rmap[i].key : i \in DOMAIN rmap })
  IN [k \in DOMAIN keys |->
        [key |-> keys[k],
         rules |-> [j \in DOMAIN GroupOf(rmap, keys[k]) |->
                      ValidatorMarshalJSON(objs[GroupOf(rmap, keys[k])[j]])]]]

\* Rules.MarshalJSON: the map built by the loop and its serialization
RulesMarshalJSON(r, objs, heap) ==
  LET rmap == rmapLoop(RulesValidators(r, heap), objs, <<>>)
  IN [rmap |-> rmap, json |-> MarshalIndent(rmap, objs)]

\* the validators the program has made, two of them function validators
ExportPool ==
  << Validator("Required", 0, FALSE, ""),
     Validator("MinLength", 2, FALSE, ""),
     Validator("FieldFunc", 0, FALSE, ""),
     Validator("StructFunc", 0, FALSE, "") >>

\* the messages SetMessage is called with
Overrides == {"", "custom"}

\* the json tags of the fields of the exported records: none, a name, and a
\* name with a dot
ExportTags == { <<>>, <<"n">>, <<"X", ".", "B">> }

\* the record types whose chains are exported: two fields with these tags,
\* and a field next to an embedded struct
ExportTypes ==
  { Named(<< [Leaf EXCEPT !.tag = a], [Leaf EXCEPT !.tag = b] >>) :
      a \in ExportTags, b \in ExportTags }
  \cup { Named(<< Embedded(<<Leaf>>), Leaf >>) }

ExportInit ==
  /\ recType \in ExportTypes
  /\ query = NoQuery
  /\ answer = NoAnswer
  /\ vobjs = ExportPool
  /\ arrays = <<>>
  /\ rs = [h \in Handles |-> New(ValidStructPtr)]
  /\ bound = [h \in Handles |-> <<>>]
  /\ call = NoCall
  /\ inflight = [g \in Goroutines |-> NotCalled]

\* vobjs[i].SetMessage(msg) on a validator that can be exported, before it
\* is bound
ESetMessage ==
  /\ call.op = "none"
  /\ \E i \in DOMAIN vobjs, msg \in Overrides :
       /\ CanExport(vobjs[i])
       /\ vobjs[i].message # msg
       /\ vobjs' = [vobjs EXCEPT ![i] = SetMessage(vobjs[i], msg)]
  /\ UNCHANGED <<recType, query, answer, arrays, rs, bound, call, inflight>>

EField ==
  /\ call.op # "MarshalJSON"
  /\ \E p \in Paths(recType), ids \in ArgLists :
       /\ Room("base", ids, MaxChain)
       /\ CallField("base", "base", p, ids, vobjs)

EStruct ==
  /\ call.op # "MarshalJSON"
  /\ \E ids \in ArgLists :
       /\ Room("base", ids, MaxChain)
       /\ CallStruct("base", "base", ids, vobjs)

\* json.Marshal(rs["base"])
EMarshal ==
  /\ call.op # "MarshalJSON"
  /\ call' = [op |-> "MarshalJSON", src |-> "base",
              out |-> RulesMarshalJSON(rs["base"], vobjs, arrays)]
  /\ UNCHANGED <<recType, query, answer, vobjs, arrays, rs, bound, inflight>>

ExportNext == ESetMessage \/ EField \/ EStruct \/ EMarshal

SpecExport == ExportInit /\ [][ExportNext]_vars

-----------------------------------------------------------------------------
(* the messages of the built-in validators *)

\* the characters of the texts: a letter, a digit and the marks of an address
MsgChars == {"a", "1", "@", "."}

RECURSIVE WordsOf(_)
\* the texts of exactly n of these characters, as bytes
WordsOf(n) ==
  IF n = 0 THEN { <<>> }
  ELSE { <<CharCode(ch)>> \o w : ch \in MsgChars, w \in WordsOf(n - 1) }

\* the values the validators are given: texts, numbers and a nil
MsgValues ==
  { StrV(w) : w \in UNION { WordsOf(n) : n \in 0..MaxRunes } }
  \cup { IntV(0), IntV(MaxNum), NilPtrV, Invalid }

\* the names a validator is bound under
MsgNames == { <<"A">>, <<"A", ".", "n">> }

MsgInit ==
  /\ recType = ForkType
  /\ query \in [value : MsgValues, n : Limits, optional : BOOLEAN,
                message : Overrides, name : MsgNames]
  /\ answer = NoAnswer
  /\ NoChain

\* the validator of the query: made by its constructor with the number n,
\* SetOptional() when optional, SetMessage(message), bound under the name
Built(kind, optional) ==
  SetMessage([Validator(kind, query.n, optional, "") EXCEPT !.name = query.name],
             query.message)

MRequired == Invoke("Required", Built("Required", FALSE))
MMinLength == Invoke("MinLength", Built("MinLength", query.optional))
MMaxLength == Invoke("MaxLength", Built("MaxLength", FALSE))
MMin == Invoke("Min", Built("Min", query.optional))
MMax == Invoke("Max", Built("Max", FALSE))
MPattern == Invoke("Pattern", Built("Pattern", query.optional))
MEmail == Invoke("Email", Built("Email", query.optional))

MsgNext ==
  MRequired \/ MMinLength \/ MMaxLength \/ MMin \/ MMax \/ MPattern \/ MEmail

SpecMsg == MsgInit /\ [][MsgNext]_vars

-----------------------------------------------------------------------------
(* violation sequences: Errors *)

RECURSIVE JoinSep(_, _)
\* strings.Join(parts, sep) for a separator of any length
JoinSep(parts, sep) ==
  IF parts = <<>> THEN <<>>
  ELSE IF Len(parts) = 1 THEN parts[1]
  ELSE parts[1] \o sep \o JoinSep(Tail(parts), sep)

RECURSIVE joinLoop(_, _, _)
\* a loop that adds list[i] and a period to list[0], for i from 1 on
joinLoop(list, i, final) ==
  IF i > Len(list) THEN final
  ELSE IF i = Len(list) THEN joinLoop(list, i + 1, final \o list[i] \o <<".">>)
  ELSE joinLoop(list, i + 1, final \o list[i] \o <<".", " ">>)

\* joinSentences written with that loop
joinSentencesLoop(list) ==
  IF Len(list) = 0 THEN <<>> ELSE joinLoop(list, 2, list[1])

\* joinSentences(list)
joinSentences(list) ==
  IF Len(list) = 0 THEN <<>>
  ELSE JoinSep(list, <<".", " ">>) \o <<".">>

\* Errors.Error(): the messages of the violations made one paragraph
ErrorsError(v) == joinSentences([i \in 1..Len(v) |-> v[i].Message])

\* Errors.Unwrap(): a slice made with len(v) nil entries, every violation
\* appended to it
ErrorsUnwrap(v) == [i \in 1..Len(v) |-> NoError] \o v

RECURSIVE mapLoopFirst(_, _)
\* a conversion that keeps the first message of a name
mapLoopFirst(v, m) ==
  IF v = <<>> THEN m
  ELSE LET key == jsonFieldName(Head(v).FieldName)
       IN mapLoopFirst(Tail(v),
            IF key \in DOMAIN m THEN m
            ELSE [k \in DOMAIN m \cup {key} |->
                    IF k = key THEN Head(v).Message ELSE m[k]])
ErrorsMapFirst(v) == mapLoopFirst(v, <<>>)

RECURSIVE errorMapLoop(_, _)
\* the violations written one by one into a map under their terminal names
errorMapLoop(v, m) ==
  IF v = <<>> THEN m
  ELSE LET key == jsonFieldName(Head(v).FieldName)
       IN errorMapLoop(Tail(v),
            [k \in DOMAIN m \cup {key} |-> IF k = key THEN Head(v).Message ELSE m[k]])

\* the name-keyed map form of a violation sequence
ErrorsMap(v) == errorMapLoop(v, <<>>)

\* the messages and the field names of the violations
ErrMessages == { <<>>, <<"a">>, <<"b", ".">> }
ErrFields == { <<"A">>, <<"B">>, <<"X", ".", "A">> }

RECURSIVE ErrorsOf(_)
\* the violation sequences of exactly n violations
ErrorsOf(n) ==
  IF n = 0 THEN { <<>> }
  ELSE { <<NewError(m, f)>> \o v : m \in ErrMessages, f \in ErrFields, v \in ErrorsOf(n - 1) }

ErrsInit ==
  /\ recType = ForkType
  /\ query \in [errs : UNION { ErrorsOf(n) : n \in 0..MaxErrs }]
  /\ answer = NoAnswer
  /\ NoChain

\* one call on the violation sequence, its result kept
ErrsCall(op, out) ==
  /\ call = NoCall
  /\ call' = [op |-> op, out |-> out]
  /\ UNCHANGED <<recType, query, answer, vobjs, arrays, rs, bound, inflight>>

ErrsError == ErrsCall("Error", ErrorsError(query.errs))
ErrsUnwrap == ErrsCall("Unwrap", ErrorsUnwrap(query.errs))
ErrsMap == ErrsCall("Map", ErrorsMap(query.errs))

ErrsNext == ErrsError \/ ErrsUnwrap \/ ErrsMap

SpecErrs == ErrsInit /\ [][ErrsNext]_vars

-----------------------------------------------------------------------------
(* Field with any record reference and any field reference *)

\* the validators of one Field call: none, one or two
FieldArgs == { <<>> } \cup ArgLists

RefsInit ==
  /\ recType \in ValidateTypes
  /\ query \in [structPtr : StructPtrs, fieldPtr : FieldPtrs(recType)]
  /\ answer = NoAnswer
  /\ vobjs = ValidatorPool
  /\ arrays = <<>>
  /\ rs = [h \in Handles |-> New(query.structPtr)]
  /\ bound = [h \in Handles |-> <<>>]
  /\ call = NoCall
  /\ inflight = [g \in Goroutines |-> NotCalled]

\* base = base.Field(fieldPtr, ids...) on New(structPtr); a panic leaves the
\* caller without a result
RField ==
  \E ids \in FieldArgs :
    /\ Room("base", ids, MaxChain)
    /\ LET out == RulesField(recType, rs["base"], query.fieldPtr, ids, vobjs, arrays)
       IN /\ call' = [op |-> "Field", ids |-> ids, panic |-> out.panic,
                      returned |-> out.panic = "",
                      before |-> RulesValidators(rs["base"], arrays)]
          /\ vobjs' = out.objs
          /\ arrays' = out.heap
          /\ IF out.panic = ""
             THEN /\ rs' = [rs EXCEPT !["base"] = out.rules]
                  /\ bound' = [bound EXCEPT !["base"] =
                                 @ \o [i \in 1..Len(ids) |-> query.fieldPtr.path]]
             ELSE UNCHANGED <<rs, bound>>
    /\ UNCHANGED <<recType, query, answer, inflight>>

RefsNext == RField

SpecRefs == RefsInit /\ [][RefsNext]_vars

-----------------------------------------------------------------------------
(* chains that hold a Min rule *)

\* the validator objects of the program: Required() and Min(1)
AbortPool ==
  << Validator("Required", 0, FALSE, ""),
     Validator("Min", 1, FALSE, "") >>

AbortInit ==
  /\ recType \in ValidateTypes
  /\ query = NoQuery
  /\ answer = NoAnswer
  /\ vobjs = AbortPool
  /\ arrays = <<>>
  /\ rs = [h \in Handles |-> New(ValidStructPtr)]
  /\ bound = [h \in Handles |-> <<>>]
  /\ call = NoCall
  /\ inflight = [g \in Goroutines |-> NotCalled]

SpecAbort == AbortInit /\ [][ValidateNext]_vars

-----------------------------------------------------------------------------
(* every built-in validator on the values of a subject *)

\* the values a field can hand to a validator: absent, texts, numbers, a slice
FatalValues == MsgValues \cup Numbers \cup { SliceV(FALSE, 1) }

\* the option lists an Options rule is made with
OptionLists ==
  { <<>>, <<IntV(1)>>, <<StrV(<<>>), IntV(0)>>, <<SliceV(FALSE, 1), UintV(1)>> }

FatalInit ==
  /\ recType = ForkType
  /\ query \in [value : FatalValues, n : Limits, optional : BOOLEAN,
                options : OptionLists]
  /\ answer = NoAnswer
  /\ NoChain

FRequired == Invoke("Required", Validator("Required", 0, FALSE, ""))
FMinLength == Invoke("MinLength", Validator("MinLength", query.n, query.optional, ""))
FMaxLength == Invoke("MaxLength", Validator("MaxLength", query.n, FALSE, ""))
FMin == Invoke("Min", Validator("Min", query.n, query.optional, ""))
FMax == Invoke("Max", Validator("Max", query.n, FALSE, ""))
FPattern == Invoke("Pattern", Validator("Pattern", 0, query.optional, ""))
FEmail == Invoke("Email", Validator("Email", 0, query.optional, ""))
FOptions == Invoke("Options", OptionsValidator(query.options))

FatalNext ==
  FRequired \/ FMinLength \/ FMaxLength \/ FMin \/ FMax \/ FPattern \/ FEmail
  \/ FOptions

SpecFatal == FatalInit /\ [][FatalNext]_vars

-----------------------------------------------------------------------------
(* C4, C5: what Field and Struct do to the chains the caller holds *)

\* a Field or Struct call has returned
Registered == call.op \in {"Field", "Struct"} /\ call.panic = ""

Forks == {"f1", "f2"}

\* C4: chains forked from a common base are independent: a Field or Struct
\* call that builds or extends one fork never changes the validator sequence
\* observed through the other fork.
C4_ForksIndependent ==
  [][ \A h \in Forks :
        (call'.op \in {"Field", "Struct"} /\ call'.dst \in Forks /\ call'.dst # h)
          => RulesValidators(rs'[h], arrays') = RulesValidators(rs[h], arrays) ]_vars

\* C5: Field and Struct leave their receiver unchanged: after the call the
\* receiver exposes the validators it exposed before (the same objects, in the
\* same order and number), and the returned chain exposes them as a prefix,
\* followed by the newly bound validators in argument order.
C5_ReceiverUnchanged ==
  Registered =>
    /\ RulesValidators(call.recv, arrays) = call.before
    /\ RulesValidators(rs[call.dst], arrays) = call.before \o call.ids

\* a fork was made by an append into spare capacity: the receiver, which is
\* not empty, and the chain returned share their backing array
C5_ForkSharesArray ==
  /\ Registered
  /\ call.dst # call.src
  /\ call.before # <<>>
  /\ rs[call.dst].validators.arr = call.recv.validators.arr
  /\ rs[call.dst].validators.len > call.recv.validators.len

-----------------------------------------------------------------------------
(* C7: concurrent Validate calls *)

\* C7: concurrent Validate calls on one chain with different subjects are
\* independent: in every interleaving each call returns what it returns when
\* it runs alone, and from its entry on neither the validator list of the
\* chain nor a field of a validator is written.
C7_ConcurrentValidateIndependent ==
  \A g \in Goroutines :
    inflight[g].pc # "idle" =>
      /\ vobjs = inflight[g].seen.objs
      /\ arrays = inflight[g].seen.heap
      /\ rs = inflight[g].seen.rs
      /\ inflight[g].pc = "done" => inflight[g].result = inflight[g].alone

\* both calls have returned, their loops ran interleaved over a chain of two
\* validators, and one call found a violation where the other found none
C7_InterleavedCallsDone ==
  /\ \A g \in Goroutines : inflight[g].pc = "done" /\ inflight[g].overlap
  /\ inflight[1].r.validators.len = 2
  /\ inflight[1].result.panic = "" /\ inflight[2].result.panic = ""
  /\ inflight[1].result.isnil /\ ~inflight[2].result.isnil

-----------------------------------------------------------------------------
(* C9, C10: the length validators count code points *)

\* C9: MinLength(n) reports a violation exactly when the text has fewer than
\* n code points (not bytes), except that with the optional flag an empty text
\* reports nothing; a text of exactly n code points passes.
C9_MinLengthCountsCodePoints ==
  call.op = "MinLength" =>
    (~call.err.isnil <=>
       /\ Len(query.runes) < query.n
       /\ ~(query.optional /\ query.runes = <<>>))

\* MinLength rejected a text that has fewer than n code points but at least n
\* bytes
C9_ShortInCodePointsOnly ==
  /\ call.op = "MinLength"
  /\ ~call.err.isnil
  /\ Len(query.runes) < query.n
  /\ Len(TextValue.s) >= query.n

\* C10: MaxLength(n) reports a violation exactly when the text has more than
\* n code points (not bytes); a text of exactly n code points passes, and
\* MaxLength(0) rejects every text that is not empty.
C10_MaxLengthCountsCodePoints ==
  call.op = "MaxLength" =>
    (~call.err.isnil <=> Len(query.runes) > query.n)

\* MaxLength accepted a text of exactly n code points that has more than n
\* bytes
C10_ExactlyMaxPasses ==
  /\ call.op = "MaxLength"
  /\ call.err.isnil
  /\ Len(query.runes) = query.n
  /\ Len(TextValue.s) > query.n

-----------------------------------------------------------------------------
(* C11, C12: Min and Max compare in the numeric kind of the field *)

\* the value of the query is below n, in its own numeric kind
BelowLimit ==
  IF query.value.kind = "float" THEN query.value.n < 2 * query.n
  ELSE query.value.n < query.n

\* the value of the query exceeds n, in its own numeric kind
AboveLimit ==
  IF query.value.kind = "float" THEN query.value.n > 2 * query.n
  ELSE query.value.n > query.n

\* C11: for a field of any numeric kind, integer or floating point, Min(n)
\* reports a violation exactly when the value is below n; with the optional
\* flag a value of zero reports nothing, a value below n that is not zero is
\* still a violation.
C11_MinComparesInKind ==
  call.op = "Min" =>
    /\ call.panic = ""
    /\ ~call.err.isnil <=> (BelowLimit /\ ~(query.optional /\ query.value.n = 0))

\* C12: for a field of any numeric kind, integer or floating point, Max(n)
\* reports a violation exactly when the value exceeds n; a value equal to n
\* and every value below n pass.
C12_MaxComparesInKind ==
  call.op = "Max" =>
    /\ call.panic = ""
    /\ ~call.err.isnil <=> AboveLimit

-----------------------------------------------------------------------------
(* C13: the walk to a field two embeddings deep *)

\* the value of Deep in the subject validated
DeepOf == call.subject.inst[DeepPath].n

\* C13: with Min(5) bound to Deep of a record that embeds Outer, which embeds
\* Inner, which has Deep: the walk descends one nested map per segment and
\* hands the value of Deep to the validator; an instance with Deep below 5
\* (Deep = 3) yields exactly one violation whose path is the export names of
\* Outer, Inner and Deep, and an instance with Deep = 5 or more yields none.
C13_DeepFieldWalk ==
  call.op = "Validate" =>
    /\ call.result.panic = ""
    /\ Len(call.result.log) = 1 /\ Len(call.result.log[1]) = 1
    /\ call.result.log[1][1].value = IntV(DeepOf)
    /\ DeepOf < 5 =>
         /\ Len(call.result.errs) = 1
         /\ Split(call.result.errs[1].FieldName, ".") = NamesAlong(recType, DeepPath)
         /\ Len(Split(call.result.errs[1].FieldName, ".")) = 3
    /\ DeepOf >= 5 => call.result.isnil

\* Deep = 3 was validated in a record whose three fields are renamed, and
\* one violation came back
C13_DeepThreeRejected ==
  /\ call.op = "Validate"
  /\ DeepOf = 3
  /\ \A p \in {<<1>>, <<1, 1>>, DeepPath} : FieldAt(recType, p).tag = <<"n", ",", "o">>
  /\ Len(call.result.errs) = 1

-----------------------------------------------------------------------------
(* C14, C15, C16: the exported description *)

\* the chain that was exported and what the export made of it
Exported == call.op = "MarshalJSON"
ExportedChain == RulesValidators(rs["base"], arrays)

\* the terminal export-name segment of the path the k-th validator was bound
\* with, the empty name for a validator bound to the record itself
TerminalSegment(k) ==
  LET p == bound["base"][k]
  IN IF p = <<>> THEN <<>> ELSE ExportName(FieldAt(recType, p))

\* the positions of the chain whose validator is exportable and bound under key
ExportablePositions ==
  { k \in 1..Len(ExportedChain) : CanExport(vobjs[ExportedChain[k]]) }
PositionsUnder(key) == { k \in ExportablePositions : TerminalSegment(k) = key }

RECURSIVE Ascending(_)
Ascending(S) ==
  IF S = {} THEN <<>>
  ELSE LET least == CHOOSE k \in S : \A o \in S : k <= o
       IN <<least>> \o Ascending(S \ {least})

\* the validators bound under key, in registration order
BoundUnder(key) ==
  [j \in 1..Cardinality(PositionsUnder(key)) |->
     ExportedChain[Ascending(PositionsUnder(key))[j]]]

\* C14: the exported description contains exactly the bound validators that
\* are exportable, each under the terminal export-name segment of its path,
\* the validators of one group in registration order, and never a validator
\* built with FieldFunc or StructFunc.
C14_ExportGroupsByTerminalName ==
  Exported =>
    LET rmap == call.out.rmap
        json == call.out.json
        keys == { TerminalSegment(k) : k \in ExportablePositions }
    IN /\ { rmap[i].key : i \in DOMAIN rmap } = keys
       /\ { json[i].key : i \in DOMAIN json } = keys
       /\ \A key \in keys : GroupOf(rmap, key) = BoundUnder(key)
       /\ \A i \in DOMAIN json :
            json[i].rules = [j \in DOMAIN BoundUnder(json[i].key) |->
                               ValidatorMarshalJSON(vobjs[BoundUnder(json[i].key)[j]])]
       /\ \A i \in DOMAIN rmap : \A j \in DOMAIN rmap[i].rules :
            vobjs[rmap[i].rules[j]].kind \notin {"FieldFunc", "StructFunc"}


\* the key the k-th validator of the chain is exported under
ExportKey(k) == jsonFieldName(vobjs[ExportedChain[k]].name)

\* the position at which the field exported under key was first registered
FirstRegistered(key) ==
  CHOOSE k \in ExportablePositions :
    /\ ExportKey(k) = key
    /\ \A o \in ExportablePositions : ExportKey(o) = key => k <= o

\* the descriptors of the validators exported under key, in registration order
InRegistrationOrder(key) ==
  LET at == Ascending({ k \in ExportablePositions : ExportKey(k) = key })
  IN [j \in DOMAIN at |-> ValidatorMarshalJSON(vobjs[ExportedChain[at[j]]])]

\* C15: in the serialized description the fields appear in the order of their
\* first registration on the chain, and the validators of each field appear
\* in registration order.
C15_SerializedInRegistrationOrder ==
  Exported =>
    LET json == call.out.json
    IN /\ \A i \in DOMAIN json : \A j \in DOMAIN json :
            i < j => FirstRegistered(json[i].key) < FirstRegistered(json[j].key)
       /\ \A i \in DOMAIN json : json[i].rules = InRegistrationOrder(json[i].key)


\* an entry of a descriptor other than its message
NotMessage(e) == e.key # "message"

\* the validator holds an override message: SetMessage left it a text that is
\* not empty, the empty text being what createError takes for no override
HasOverride(c) == c.message # ""

\* C16: the exported descriptor of a validator carries the override message
\* exactly when an override was set through SetMessage, carries no message
\* entry otherwise, and carries the same rule kind and parameters either way.
C16_MessageOnlyWhenOverridden ==
  Exported =>
    \A i \in DOMAIN call.out.json :
      LET ids == GroupOf(call.out.rmap, call.out.json[i].key)
          ds == call.out.json[i].rules
      IN /\ Len(ds) = Len(ids)
         /\ \A j \in DOMAIN ds :
              LET c == vobjs[ids[j]]
                  msgs == { e \in DOMAIN ds[j] : ds[j][e].key = "message" }
              IN /\ HasOverride(c) =>
                      /\ Cardinality(msgs) = 1
                      /\ \A e \in msgs : ds[j][e].text = c.message
                 /\ ~HasOverride(c) => msgs = {}
                 /\ SelectSeq(ds[j], NotMessage) = << RuleEntry(c) >> \o ParamEntries(c)
                 /\ SelectSeq(ds[j], NotMessage) =
                      SelectSeq(ValidatorMarshalJSON(ExportPool[ids[j]]), NotMessage)

\* a chain was exported that holds a MinLength with an override message and a
\* Required without one
C16_OverriddenAndPlainExported ==
  /\ Exported
  /\ ExportedChain = <<2, 1>>
  /\ vobjs[2].message = "custom" /\ vobjs[1].message = ""
  /\ \E i \in DOMAIN call.out.json : \E j \in DOMAIN call.out.json[i].rules :
       call.out.json[i].rules[j] =
         << Entry("rule", "minLength", 0), Entry("min", "", 2),
            Entry("message", "custom", 0) >>
  /\ \E i \in DOMAIN call.out.json : \E j \in DOMAIN call.out.json[i].rules :
       call.out.json[i].rules[j] = << Entry("rule", "required", 0) >>


-----------------------------------------------------------------------------
(* C17: override and default messages *)

\* the default message of the validator that was invoked: its format, the
\* last segment of the name it is bound under, and its number
DefaultMessage ==
  LET field == jsonFieldName(query.name)
  IN CASE call.op = "Required" -> Msg("Please enter the %v", field, 0)
       [] call.op = "MinLength" ->
            Msg("Please lengthen %s to %d characters or more", field, query.n)
       [] call.op = "MaxLength" ->
            Msg("Please shorten %s to %d characters or less", field, query.n)
       [] call.op = "Min" -> Msg("Please increase %s to be %v or more", field, query.n)
       [] call.op = "Max" -> Msg("Please decrease %s to be %v or less", field, query.n)
       [] call.op = "Pattern" -> Msg("Please correct %s into a valid format", field, 0)
       [] call.op = "Email" -> Msg("Please use a valid email address for %s", field, 0)

\* the validator that was invoked reported a violation
Violation == call # NoCall /\ call.panic = "" /\ ~call.err.isnil

\* C17: a violation of Required, MinLength, MaxLength, Min, Max, Pattern or
\* Email carries the override given to SetMessage when one was set, and the
\* default message of the validator otherwise, which is none of the overrides.
C17_OverrideElseDefault ==
  Violation =>
    /\ query.message # "" => call.err.Message = Msg(query.message, <<>>, 0)
    /\ query.message = "" => call.err.Message = DefaultMessage
    /\ \A msg \in Overrides \ {""} : DefaultMessage # Msg(msg, <<>>, 0)

\* Email rejected a text that is no address and reported the override
C17_EmailOverrideReported ==
  /\ call # NoCall /\ call.op = "Email" /\ call.panic = ""
  /\ query.value = StrV(<<CharCode("a"), CharCode("@")>>)
  /\ query.message = "custom"
  /\ ~call.err.isnil /\ call.err.Message.text = "custom"


-----------------------------------------------------------------------------
(* C18, C19, C20: the views of a violation sequence *)

\* where the i-th message begins in the combined message: after the messages
\* before it and their separators
RECURSIVE OffsetOf(_, _)
OffsetOf(v, i) ==
  IF i = 1 THEN 0 ELSE OffsetOf(v, i - 1) + Len(v[i - 1].Message) + 2

\* C18: the combined message of n >= 1 violations holds every message in
\* sequence order, a period and a space between consecutive messages and a
\* period at the end; the combined message of no violation is empty.
C18_CombinedMessage ==
  call.op = "Error" =>
    LET v == query.errs
        n == Len(v)
        out == call.out
    IN IF n = 0 THEN out = <<>>
       ELSE /\ Len(out) = OffsetOf(v, n) + Len(v[n].Message) + 1
            /\ \A i \in 1..n :
                 SubSeq(out, OffsetOf(v, i) + 1, OffsetOf(v, i) + Len(v[i].Message))
                   = v[i].Message
            /\ \A i \in 1..(n - 1) :
                 SubSeq(out, OffsetOf(v, i + 1) - 1, OffsetOf(v, i + 1)) = <<".", " ">>
            /\ out[Len(out)] = "."

\* two violations were combined into "a. b.."
C18_TwoCombined ==
  /\ call.op = "Error"
  /\ query.errs = << NewError(<<"a">>, <<"A">>), NewError(<<"b", ".">>, <<"B">>) >>
  /\ call.out = <<"a", ".", " ", "b", ".", ".">>

\* C19: the unwrapping view of n violations exposes exactly n errors, the
\* i-th of them the i-th violation, none of them nil and none twice.
C19_UnwrapExposesEach ==
  call.op = "Unwrap" =>
    /\ Len(call.out) = Len(query.errs)
    /\ \A i \in DOMAIN call.out :
         /\ ~call.out[i].isnil
         /\ i <= Len(query.errs) /\ call.out[i] = query.errs[i]

\* the last violation of the sequence under the terminal name key
LastUnder(v, key) ==
  CHOOSE i \in DOMAIN v :
    /\ jsonFieldName(v[i].FieldName) = key
    /\ \A j \in DOMAIN v : jsonFieldName(v[j].FieldName) = key => j <= i

\* C20: the map form of a violation sequence has one entry per distinct
\* terminal field name, its message that of the last violation of that name;
\* violations on A, A, B give the two entries A and B, A with the message of
\* the second violation.
C20_MapKeepsLast ==
  call.op = "Map" =>
    LET v == query.errs
    IN /\ DOMAIN call.out = { jsonFieldName(v[i].FieldName) : i \in DOMAIN v }
       /\ \A key \in DOMAIN call.out : call.out[key] = v[LastUnder(v, key)].Message
       /\ (Len(v) = 3 /\ v[1].FieldName = <<"A">> /\ v[2].FieldName = <<"A">>
             /\ v[3].FieldName = <<"B">>)
            => /\ DOMAIN call.out = { <<"A">>, <<"B">> }
               /\ call.out[<<"A">>] = v[2].Message

\* violations on A, A, B were converted, the two on A with different messages
C20_TwiceAOnceB ==
  /\ call.op = "Map"
  /\ query.errs = << NewError(<<"a">>, <<"A">>), NewError(<<"b", ".">>, <<"A">>),
                     NewError(<<"a">>, <<"B">>) >>
  /\ DOMAIN call.out = { <<"A">>, <<"B">> }
  /\ call.out[<<"A">>] = <<"b", ".">>
  /\ call.out[<<"B">>] = <<"a">>


-----------------------------------------------------------------------------
(* C21: Field on references it cannot resolve *)

\* the fields of the record, those of embedded sub-records included
SearchedPaths == { p \in Paths(recType) : ThroughEmbedding(recType, p) }

\* some field of the registered record has the address of the field reference
SomeFieldAtAddress ==
  \E p \in SearchedPaths :
    AddrOfPath(recType, query.structPtr.addr, p) = query.fieldPtr.addr

\* the record reference is no pointer to a struct or is nil, the field
\* reference is no pointer, or no field has its address
Unresolvable ==
  \/ query.structPtr.kind # "ptr"
  \/ query.structPtr.isnil
  \/ query.structPtr.elem # "struct"
  \/ query.fieldPtr.kind # "ptr"
  \/ ~SomeFieldAtAddress

\* C21: Field panics, returns no Rule Set and collects nothing when the
\* record reference is not a pointer to a struct, when it is nil, when the
\* field reference is not a pointer, or when no field of the record, embedded
\* sub-records searched too, has the address of the field reference.
C21_FieldPanicsOnBadReference ==
  (call.op = "Field" /\ Unresolvable) =>
    /\ call.panic # ""
    /\ ~call.returned
    /\ RulesValidators(rs["base"], arrays) = call.before


-----------------------------------------------------------------------------
(* C22, C23: a Validate call as a whole *)

\* the value the k-th validator of the chain is bound to in the subject: the
\* record itself for a validator added through Struct
BoundValue(k) ==
  LET p == bound[call.src][k]
  IN IF p = <<>> THEN SubjectValue(call.subject)
     ELSE IF p \in ValuePaths(recType) THEN call.subject.inst[p]
     ELSE StructV(TRUE)

\* a Min or Max rule of the chain is bound to a present value that is neither
\* an integer nor a floating point number
MeetsUnsupportedKind ==
  \E k \in 1..Len(ValidatedChain) :
    /\ vobjs[ValidatedChain[k]].kind \in {"Min", "Max"}
    /\ KindOf(BoundValue(k)) \notin {"int", "float", "invalid"}

\* C22: Validate never fails in part: when a Min or Max rule meets a present
\* value that is neither an integer nor a floating point number the call
\* panics and yields no violations at all; in every other run every bound
\* validator is executed and the violations are returned.
C22_AbortsOrRunsAll ==
  call.op = "Validate" =>
    IF MeetsUnsupportedKind
    THEN call.result.panic # "" /\ call.result.errs = <<>>
    ELSE /\ call.result.panic = ""
         /\ Len(call.result.log) = Len(ValidatedChain)
         /\ \A k \in 1..Len(call.result.log) : Len(call.result.log[k]) >= 1
         /\ call.result.errs = AllReported(call.result.log)

\* C23: validating a pointer to a record yields the violations that validating
\* the record itself yields, for every chain and every record.
C23_ByReferenceAsByValue ==
  (call.op = "Validate" /\ call.subject.byRef) =>
    LET byValue == RulesValidate(Objects(ValidatedChain, vobjs), recType,
                                 [inst |-> call.subject.inst, byRef |-> FALSE])
    IN /\ call.result.panic = byValue.panic
       /\ call.result.isnil = byValue.isnil
       /\ call.result.errs = byValue.errs


-----------------------------------------------------------------------------
(* C24: which value a validator is invoked with *)

\* the validator object id is bound to no field by any entry of the chain
NeverFieldBound(id) ==
  \A j \in 1..Len(ValidatedChain) :
    ValidatedChain[j] = id => bound[call.src][j] = <<>>

\* C24: a validator is invoked with the whole subject exactly when its path is
\* empty: one added through Struct and never bound to a field receives the
\* record, and one added through Field, a StructFunc too, receives the value
\* of its field.
C24_RecordIffEmptyPath ==
  Validated =>
    \A k \in 1..Len(ValidatedChain) :
      LET p == bound[call.src][k]
          calls == call.result.log[k]
      IN IF p = <<>>
         THEN NeverFieldBound(ValidatedChain[k]) =>
                /\ Len(calls) = 1
                /\ calls[1].value = SubjectValue(call.subject)
         ELSE p \in ValuePaths(recType) =>
                /\ Len(calls) = 1
                /\ calls[1].value = call.subject.inst[p]


-----------------------------------------------------------------------------
(* C25, C26, C27: how the resolver chooses among fields of one address *)

\* getFieldName was called with the registered record and a pointer
Resolved ==
  /\ answer # NoAnswer
  /\ query.structPtr = ValidStructPtr
  /\ query.fieldPtr.kind = "ptr"

\* the address of the field at path p of the registered record
AddrOf(p) == AddrOfPath(recType, InstanceAddr(1), p)

\* the name getFieldName makes of the path p
NameOfPath(p) == Join(NamesAlong(recType, p), ".")

\* the embedded sub-records of the record, at any depth of embedding
SubRecords ==
  { p \in Paths(recType) :
      /\ ThroughEmbedding(recType, p)
      /\ FieldAt(recType, p).anon /\ FieldAt(recType, p).kind = "struct" }

\* the fields inside the sub-record at path sub that have the address addr
InsideAt(sub, addr) ==
  { q \in Paths(recType) :
      /\ Len(q) > Len(sub) /\ SubSeq(q, 1, Len(sub)) = sub
      /\ ThroughEmbedding(recType, q)
      /\ AddrOf(q) = addr }

\* the field reference was taken of the sub-record at path sub or of a field
\* inside it
RefersInto(sub) ==
  /\ query.fieldPtr.inst = 1
  /\ Len(query.fieldPtr.path) >= Len(sub)
  /\ SubSeq(query.fieldPtr.path, 1, Len(sub)) = sub

\* C25: when the field reference has the address of an embedded sub-record
\* the resolver returns a path through the sub-record to a field inside it at
\* that address, and the path ending at the sub-record only when no field
\* inside has the address.
C25_DeeperPathPreferred ==
  Resolved =>
    \A sub \in SubRecords :
      (AddrOf(sub) = query.fieldPtr.addr /\ RefersInto(sub)) =>
        /\ answer.panic = ""
        /\ IF InsideAt(sub, query.fieldPtr.addr) # {}
           THEN \E q \in InsideAt(sub, query.fieldPtr.addr) : answer.name = NameOfPath(q)
           ELSE answer.name = NameOfPath(sub)

\* the type of a field, as far as the record type tells types apart: its kind
\* and, of a struct, its declared fields
TypeOf(sf) == [kind |-> sf.kind, fields |-> sf.fields]

\* the fields findStructField returns for the call
FieldsFound ==
  findStructField([Embedded(recType) EXCEPT !.anon = FALSE],
                  query.structPtr.addr, query.fieldPtr.addr, <<>>).fields

\* the call ended in a terminal match on a field that is not embedded
TerminalMatch ==
  /\ Resolved /\ answer.panic = ""
  /\ ~FieldsFound[Len(FieldsFound)].anon

\* C26: a non-embedded field is the terminal match only when its type is the
\* pointed-to type of the field reference; a field that only shares the
\* address is never the match.
C26_TerminalMatchHasType ==
  TerminalMatch =>
    TypeOf(FieldsFound[Len(FieldsFound)])
      = TypeOf(FieldAt(recType, query.fieldPtr.path))

RECURSIVE findStructFieldForward(_, _, _, _)
RECURSIVE findLoopForward(_, _, _, _, _)

\* the loop of findStructField with the fields taken in declaration order:
\* the same body, at index i counting up to the number of fields
findLoopForward(fs, base, ptr, results, i) ==
  IF i > Len(fs) THEN Found(results)
  ELSE
    LET sf == fs[i]
        addr == FieldAddr(fs, base, i)
        depth == Len(results)
    IN IF ptr = addr
       THEN IF sf.anon
            THEN findStructFieldForward(sf, addr, ptr, Append(results, sf))
            ELSE Found(Append(results, sf))
       ELSE IF sf.anon
            THEN LET tmp == findStructFieldForward(sf, addr, ptr, Append(results, sf))
                 IN IF tmp.panic # "" THEN tmp
                    ELSE IF Len(tmp.fields) > depth + 1 THEN tmp
                    ELSE findLoopForward(fs, base, ptr, results, i + 1)
            ELSE findLoopForward(fs, base, ptr, results, i + 1)

findStructFieldForward(sv, base, ptr, results) ==
  IF sv.kind # "struct" THEN Panicked("reflect: call of NumField on non-struct")
  ELSE findLoopForward(sv.fields, base, ptr, results, 1)

\* what findStructField returns for the call, and what the forward scan does
ReverseScan ==
  findStructField([Embedded(recType) EXCEPT !.anon = FALSE],
                  query.structPtr.addr, query.fieldPtr.addr, <<>>)
ForwardScan ==
  findStructFieldForward([Embedded(recType) EXCEPT !.anon = FALSE],
                         query.structPtr.addr, query.fieldPtr.addr, <<>>)

\* C27: for every record layout and every field reference the scan of the
\* fields in declaration order returns the path the reverse scan returns.
C27_ScanOrderIrrelevant ==
  Resolved => ForwardScan = ReverseScan

-----------------------------------------------------------------------------
(* C28: the walk of a field validator's path *)

\* the root mapping of the subject that was validated
RootMapping ==
  structToMap(SubjectDescriptor(recType, call.subject), call.subject.inst, <<>>).m

RECURSIVE Located(_, _)
\* the binding reached by following the whole path from the mapping vmap,
\* segment by segment: absent when a segment is missing or a segment before
\* the last one is no nested mapping
Located(vmap, path) ==
  LET e == Lookup(vmap, Head(path))
  IN IF Len(path) = 1 THEN e
     ELSE IF e.ismap THEN Located(e.m, Tail(path))
     ELSE ValEntry(Invalid)

\* C28: in one Validate call every validator with a path is invoked exactly
\* once, with the value its whole path leads to from the root mapping, and
\* with the absent value when the path leads nowhere.
C28_InvokedOnceAlongPath ==
  Validated =>
    \A k \in 1..Len(ValidatedChain) :
      LET name == vobjs[ValidatedChain[k]].name
          calls == call.result.log[k]
          e == Located(RootMapping, Split(name, "."))
      IN name # <<>> =>
           /\ Len(calls) = 1
           /\ (~e.ismap \/ e.v # Invalid) => calls[1].value = e.v

-----------------------------------------------------------------------------
(* C29: the path of an entry after later calls *)

\* the path the k-th entry of the chain of handle h reports, in the state at
\* hand and in the next one
PathOfEntry(h, k) == vobjs[RulesValidators(rs[h], arrays)[k]].name
NextPathOfEntry(h, k) == vobjs'[RulesValidators(rs'[h], arrays')[k]].name

\* no entry that Field made changes the path it reports
EntriesKeepPath ==
  \A k \in 1..Len(bound["base"]) :
    bound["base"][k] # <<>> => NextPathOfEntry("base", k) = PathOfEntry("base", k)

\* C29: an entry made by Field(f, v) reports the path of f after every later
\* Field or Struct call, also one that binds the same validator instance to
\* another field or adds it through Struct.
C29_EntryKeepsItsPath == [][EntriesKeepPath]_vars

-----------------------------------------------------------------------------
(* C30: outcomes that depend on the data of the subject *)

\* the kinds of value a built-in rule is meant for
MeantFor(op, v) ==
  CASE op = "Required" -> TRUE
    [] op \in {"MinLength", "MaxLength", "Pattern", "Email"} -> v.kind = "string"
    [] op \in {"Min", "Max"} -> v.kind \in {"int", "uint", "float"}
    [] op = "Options" -> v.kind \in {"int", "uint", "float", "string"}
    [] OTHER -> FALSE

\* C30: a built-in validator invoked with an absent value, or with a value of
\* the kind it is meant for, returns a violation or passes; it never panics.
C30_DataNeverFatal ==
  (call # NoCall /\ (query.value = Invalid \/ MeantFor(call.op, query.value)))
    => call.panic = ""

====
